---- MODULE Spec2Model ----
(***************************************************************************)
(* Model of the virtual-ascii capture -> render -> publish pipeline        *)
(* (src/src/pipeline.rs) together with the operators that issue commands   *)
(* to it.  Each worker thread is a small program counter machine; the      *)
(* camera, the font rasteriser and the v4l2 sink are external, so their    *)
(* outcomes are drawn nondeterministically.                                *)
(***************************************************************************)
EXTENDS Integers, Naturals, Sequences, FiniteSets, TLC

\* ------------------------------------------------------------------ bounds

\* Commands the operator may have waiting in one command queue at a time.
MaxPending == 1

\* Lines in one request on the control socket.
MaxLines == 2

\* Commands waiting in one command channel where their order is followed.
MaxQueued == 2

\* Frames captured where each frame is followed to the sink.
MaxFrames == 3

\* ------------------------------------------------------- program constants

CaptureQueueCap == 2          \* bounded(2), capture -> render
OutputQueueCap == 2           \* bounded(2), render -> output
CommandQueueCap == 4          \* bounded(4), command channels
PreviewCap == 1               \* bounded(1), GUI preview taps
ReconnectThreshold == 30      \* consecutive_errors >= 30
ReconnectSleeps == 20         \* for _ in 0..20 { sleep(100ms) }
NanosPerSec == 1000000000
MAX_LINE_LENGTH == 4096
MAX_COMMANDS_PER_CONNECTION == 100
DefaultMaxFps == 240          \* detected max fps .unwrap_or(240)

\* ------------------------------------------------------------ input sets

NoRes == <<0, 0>>             \* resolution: None
Cameras == {0, 1}
Resolutions == {NoRes, <<640, 480>>}
FpsValues == {15, 30}
Columns == {40, 80}
\* What GlyphCache::new reports for the requested font size: a load error, or
\* the cell width and height of the rasterised glyphs (both floored at 1).
GlyphOutcomes == {<<0, 0>>, <<8, 16>>, <<4, 8>>, <<8, 400>>}
GlyphError == <<0, 0>>

Min(a, b) == IF a < b THEN a ELSE b

\* ------------------------------------------------------------- variables

VARIABLES
    shutdown,             \* the shared AtomicBool
    \* capture thread
    cap_pc,               \* "init" | "check" | "drain" | "pace" | "reconnect" | "backoff" | "done"
    camera,               \* the open WebcamCapture: <<index, resolution, fps>>, or NoCamera
    cur_index, cur_resolution, cur_fps,
    frame_interval,       \* Duration, in nanoseconds
    dims,                 \* (w, h) of the open camera
    consecutive_errors,
    backoff_i,            \* iteration of the 0..20 sleep loop in reconnect_camera
    capture_q,            \* capture_tx / capture_rx, bounded(2)
    capture_cmds,         \* capture_cmd_rx
    capture_reply,        \* last value sent on a capture command's response_tx
    \* render thread
    ren_pc,               \* "check" | "drain" | "done"
    renderer,             \* the active AsciiRenderer
    render_cmds,          \* render_cmd_rx
    render_reply,         \* last value sent on a render command's response_tx
    gui_raw, gui_rendered,\* preview taps, bounded(1)
    \* output stage
    render_to_output_tx,  \* Mutex<Option<Sender>>: TRUE when Some
    out_q,                \* the channel behind render_to_output_tx, bounded(2)
    out_pc,               \* "none" | "check" | "recv" | "done"
    output_handle,        \* Pipeline.output_handle is Some
    output_shutdown,      \* Pipeline.output_shutdown is Some
    out_flag,             \* the AtomicBool the running output thread polls
    sink,                 \* the attached V4l2Output: "fresh" | "written" | "failed"
    \* the thread that owns the Pipeline value
    ctl_pc,               \* "idle" | "stop_join" (inside stop_output's join)
    start_result,         \* what the last start_output returned
    \* control-socket connection handler (control.rs handle_connection)
    hc_pc,                \* "idle" | "accepted" | "cam_send" | "cam_wait" | "fps_send" | "fps_wait"
                          \* | "ren_send" | "ren_wait" | "closed"
    request,              \* the lines on the connection that are still unread
    capture_changes,      \* CaptureChanges
    render_changes,       \* RenderChanges
    responses,            \* the response lines of the connection
    state,                \* RuntimeState
    \* the application around the Pipeline
    pipeline_running,     \* GuiState.pipeline_running
    cmd_tx_alive,         \* the command senders have not been dropped
    wait_pc,              \* Pipeline::wait: "none" | "join_output" | "join_capture"
                          \* | "join_render" | "joined"
    old_workers,          \* workers of earlier Pipeline values that have not exited
    gui_camera_index,     \* GuiState.camera_index
    \* the rain animation of the matrix theme (rain.rs)
    rain,                 \* the renderer's MatrixRainState, or NoRain
    cells,                \* what the last compute_cells returned
    \* calls into the renderer and the glyph cache
    render_out,           \* the last AsciiRenderer::render call and its result
    char_map,             \* the last map_to_characters call and its result
    bitmap,               \* a glyph's coverage bitmap
    \* the Mutex around the sink slot
    cap_cmd,              \* the command the capture thread last received, with what was sent on its response_tx
    ren_cmd,              \* the same for the render thread
    captured,             \* how many frames capture_frame has returned, where frames are numbered
    written,              \* the numbers of the frames write_frame has written, in order
    sink_lock,            \* who holds it: "free" | "render" | "owner"
    rendered_frame        \* the frame the render thread is about to offer

capVars == <<cap_pc, camera, cur_index, cur_resolution, cur_fps, frame_interval,
             dims, consecutive_errors, backoff_i, capture_reply>>
renVars == <<ren_pc, renderer, render_reply>>
outVars == <<render_to_output_tx, out_q, out_pc, output_handle, output_shutdown,
             out_flag, sink, ctl_pc, start_result>>
hcVars == <<hc_pc, request, capture_changes, render_changes, responses, state>>
appVars == <<pipeline_running, cmd_tx_alive, wait_pc, old_workers,
             gui_camera_index>>
rainVars == <<rain, cells>>
callVars == <<render_out, char_map, bitmap>>
lockVars == <<sink_lock, rendered_frame>>
cmdVars == <<cap_cmd, ren_cmd>>
frameVars == <<captured, written>>
\* Everything outside the Pipeline value and its three threads.
extVars == <<hcVars, appVars, rainVars, callVars, lockVars, cmdVars, frameVars>>
vars == <<shutdown, capVars, capture_q, capture_cmds, renVars, render_cmds,
          gui_raw, gui_rendered, outVars, extVars>>

NoCamera == <<>>

\* ------------------------------------------------------- pure functions

\* Duration::from_secs_f64(1.0 / fps as f64), in whole nanoseconds (rounded
\* to nearest).
FrameInterval(fps) == (2 * NanosPerSec + fps) \div (2 * fps)

\* capture.rs requested_format + camera_format(): the negotiated size.
CameraResolution(resolution) ==
    IF resolution = NoRes THEN <<1920, 1080>> ELSE resolution

\* AsciiRenderer::new once the glyph cache has been built (or failed).
AsciiRendererNew(glyph, output_width, output_height, ascii_columns) ==
    IF glyph = GlyphError
    THEN [ok |-> FALSE, r |-> <<>>]
    ELSE LET cell_w == glyph[1]
             cell_h == glyph[2]
             ascii_cols == Min(ascii_columns, output_width \div cell_w)
             ascii_rows == output_height \div cell_h
         IN  IF cell_w = 0 \/ cell_h = 0 \/ ascii_cols = 0 \/ ascii_rows = 0
             THEN [ok |-> FALSE, r |-> <<>>]
             ELSE [ok |-> TRUE,
                   r |-> [output_width |-> output_width,
                          output_height |-> output_height,
                          ascii_cols |-> ascii_cols,
                          ascii_rows |-> ascii_rows]]

\* The renderer the pipeline is started with (main.rs 93-104).
InitialRenderer == AsciiRendererNew(<<8, 16>>, 320, 240, 40).r

\* A send that queues the message whatever the channel holds.
TrySendUnbounded(q, cap, msg) == Append(q, msg)

\* crossbeam try_send on a bounded channel: the message is appended unless
\* the channel is full, in which case it is handed back (and dropped here).
TrySend(q, cap, msg) == IF Len(q) < cap THEN Append(q, msg) ELSE q

\* ------------------------------------------------------------ commands

ChangeCamera(index, resolution) ==
    [type |-> "ChangeCamera", index |-> index, resolution |-> resolution, fps |-> 0]
ChangeFps(fps) ==
    [type |-> "ChangeFps", index |-> 0, resolution |-> NoRes, fps |-> fps]
CaptureActions ==
    {ChangeCamera(i, r) : i \in Cameras, r \in Resolutions}
        \cup {ChangeFps(f) : f \in FpsValues}
Rebuild(ascii_columns) == [type |-> "Rebuild", ascii_columns |-> ascii_columns]
RenderActions == {Rebuild(c) : c \in Columns}

Frame == [width |-> dims[1], height |-> dims[2]]

\* ----------------------------------------------------------------- Init

\* Option::None in a change set.
None == -1

\* AsciiRenderer.rain_state: None (renderer.rs 79-89).
NoRain == <<>>

NoCaptureChanges == [camera_index |-> None, resolution |-> None, fps |-> None]
NoRenderChanges == [definition |-> None]

\* RuntimeState as cmd_run builds it (main.rs 119-130).
InitialState ==
    [camera_index |-> 0, resolution |-> NoRes, fps |-> 30,
     max_fps |-> DefaultMaxFps, definition |-> 1]

\* No connection being handled; the application holds a running Pipeline
\* and the command senders.
InitExt ==
    /\ hc_pc = "idle"
    /\ request = <<>>
    /\ capture_changes = NoCaptureChanges
    /\ render_changes = NoRenderChanges
    /\ responses = <<>>
    /\ state = InitialState
    /\ cmd_tx_alive = TRUE
    /\ wait_pc = "none"
    /\ old_workers = {}
    /\ gui_camera_index = 0
    /\ rain = NoRain
    /\ cells = <<>>
    /\ render_out = <<>>
    /\ bitmap = <<>>
    /\ sink_lock = "free"
    /\ rendered_frame = <<>>
    /\ cap_cmd = <<>>
    /\ ren_cmd = <<>>
    /\ captured = 0
    /\ written = <<>>

InitCore ==
    /\ InitExt
    /\ shutdown = FALSE
    /\ cap_pc = "init"
    /\ camera = NoCamera
    /\ cur_index = 0
    /\ cur_resolution = NoRes
    /\ cur_fps = 30
    /\ frame_interval = FrameInterval(30)
    /\ dims = <<0, 0>>
    /\ consecutive_errors = 0
    /\ backoff_i = 0
    /\ capture_q = <<>>
    /\ capture_cmds = <<>>
    /\ capture_reply = "none"
    /\ ren_pc = "check"
    /\ renderer = InitialRenderer
    /\ render_cmds = <<>>
    /\ render_reply = "none"
    /\ gui_raw = <<>>
    /\ gui_rendered = <<>>
    \* v4l2_output: Option<V4l2Output>: the CLI passes Some, the GUI None
    /\ \E attached \in BOOLEAN :
        /\ render_to_output_tx = attached
        /\ out_pc = IF attached THEN "check" ELSE "none"
        /\ output_handle = attached
        /\ output_shutdown = attached
        \* GuiState exists in the GUI only, which sets pipeline_running when
        \* start_pipeline returns (gui/pipeline_bridge.rs 85)
        /\ pipeline_running = ~attached
    /\ out_flag = FALSE
    /\ out_q = <<>>
    /\ sink = "fresh"
    /\ ctl_pc = "idle"
    /\ start_result = "none"

\* The state after construction; no grid has been mapped to characters yet.
Init == InitCore /\ char_map = <<>>

\* ------------------------------------------------------- capture thread

\* WebcamCapture::new at thread start (pipeline.rs 72-88).
CaptureOpen ==
    /\ cap_pc = "init"
    /\ \E ok \in BOOLEAN :
        IF ok
        THEN /\ camera' = <<cur_index, cur_resolution, cur_fps>>
             /\ dims' = CameraResolution(cur_resolution)
             /\ cap_pc' = "check"
             /\ UNCHANGED shutdown
        ELSE /\ shutdown' = TRUE
             /\ cap_pc' = "done"
             /\ UNCHANGED <<camera, dims>>
    /\ UNCHANGED <<extVars, cur_index, cur_resolution, cur_fps, frame_interval,
                   consecutive_errors, backoff_i, capture_reply,
                   capture_q, capture_cmds, renVars, render_cmds,
                   gui_raw, gui_rendered, outVars>>

\* while !shutdown_capture.load() (pipeline.rs 90-91).
CaptureCheck ==
    /\ cap_pc = "check"
    /\ cap_pc' = IF shutdown THEN "done" ELSE "drain"
    /\ UNCHANGED <<extVars, shutdown, camera, cur_index, cur_resolution, cur_fps,
                   frame_interval, dims, consecutive_errors, backoff_i,
                   capture_reply, capture_q, capture_cmds, renVars,
                   render_cmds, gui_raw, gui_rendered, outVars>>

\* A camera change that records the requested index and resolution before
\* the open and does not restore them on rollback.
ChangeCameraOutcomeNoRestore(cmd, new_ok, rollback_ok) ==
    IF new_ok
    THEN [camera |-> <<cmd.index, cmd.resolution, cur_fps>>,
          dims |-> CameraResolution(cmd.resolution),
          cur_index |-> cmd.index, cur_resolution |-> cmd.resolution,
          consecutive_errors |-> 0, reply |-> "Ok", fatal |-> FALSE]
    ELSE IF rollback_ok
    THEN [camera |-> <<cur_index, cur_resolution, cur_fps>>,
          dims |-> CameraResolution(cur_resolution),
          cur_index |-> cmd.index, cur_resolution |-> cmd.resolution,
          consecutive_errors |-> consecutive_errors, reply |-> "Err",
          fatal |-> FALSE]
    ELSE [camera |-> NoCamera, dims |-> dims,
          cur_index |-> cur_index, cur_resolution |-> cur_resolution,
          consecutive_errors |-> consecutive_errors, reply |-> "Err",
          fatal |-> TRUE]

\* CaptureAction::ChangeCamera: what the handler leaves behind, given
\* whether the new camera opened and whether the old one reopened
\* (pipeline.rs 100-159).
ChangeCameraOutcome(cmd, new_ok, rollback_ok) ==
    IF new_ok
    THEN [camera |-> <<cmd.index, cmd.resolution, cur_fps>>,
          dims |-> CameraResolution(cmd.resolution),
          cur_index |-> cmd.index, cur_resolution |-> cmd.resolution,
          consecutive_errors |-> 0, reply |-> "Ok", fatal |-> FALSE]
    ELSE IF rollback_ok
    THEN [camera |-> <<cur_index, cur_resolution, cur_fps>>,
          dims |-> CameraResolution(cur_resolution),
          cur_index |-> cur_index, cur_resolution |-> cur_resolution,
          consecutive_errors |-> consecutive_errors, reply |-> "Err",
          fatal |-> FALSE]
    ELSE [camera |-> NoCamera, dims |-> dims,
          cur_index |-> cur_index, cur_resolution |-> cur_resolution,
          consecutive_errors |-> consecutive_errors, reply |-> "Err",
          fatal |-> TRUE]

\* CaptureAction::ChangeCamera (pipeline.rs 96-160).
CaptureChangeCamera ==
    /\ cap_pc = "drain"
    /\ capture_cmds # <<>>
    /\ Head(capture_cmds).type = "ChangeCamera"
    /\ \E new_ok \in BOOLEAN, rollback_ok \in BOOLEAN :
        LET o == ChangeCameraOutcome(Head(capture_cmds), new_ok, rollback_ok) IN
        /\ camera' = o.camera
        /\ dims' = o.dims
        /\ cur_index' = o.cur_index
        /\ cur_resolution' = o.cur_resolution
        /\ consecutive_errors' = o.consecutive_errors
        /\ capture_reply' = o.reply
        /\ shutdown' = (shutdown \/ o.fatal)
        /\ cap_pc' = IF o.fatal THEN "done" ELSE cap_pc
    /\ capture_cmds' = Tail(capture_cmds)
    /\ UNCHANGED <<extVars, cur_fps, frame_interval, backoff_i, capture_q,
                   renVars, render_cmds, gui_raw, gui_rendered, outVars>>

\* A rate change that sets frame_interval before the camera has reopened.
ChangeFpsOutcomeEagerInterval(cmd, new_ok, rollback_ok) ==
    IF new_ok
    THEN [camera |-> <<cur_index, cur_resolution, cmd.fps>>,
          dims |-> CameraResolution(cur_resolution),
          cur_fps |-> cmd.fps, frame_interval |-> FrameInterval(cmd.fps),
          reply |-> "Ok", fatal |-> FALSE]
    ELSE IF rollback_ok
    THEN [camera |-> <<cur_index, cur_resolution, cur_fps>>,
          dims |-> dims,
          cur_fps |-> cur_fps, frame_interval |-> FrameInterval(cmd.fps),
          reply |-> "Err", fatal |-> FALSE]
    ELSE [camera |-> NoCamera, dims |-> dims,
          cur_fps |-> cur_fps, frame_interval |-> frame_interval,
          reply |-> "Err", fatal |-> TRUE]

\* CaptureAction::ChangeFps: what the handler leaves behind (pipeline.rs
\* 163-192).
ChangeFpsOutcome(cmd, new_ok, rollback_ok) ==
    IF new_ok
    THEN [camera |-> <<cur_index, cur_resolution, cmd.fps>>,
          dims |-> CameraResolution(cur_resolution),
          cur_fps |-> cmd.fps, frame_interval |-> FrameInterval(cmd.fps),
          reply |-> "Ok", fatal |-> FALSE]
    ELSE IF rollback_ok
    THEN [camera |-> <<cur_index, cur_resolution, cur_fps>>,
          dims |-> dims,
          cur_fps |-> cur_fps, frame_interval |-> frame_interval,
          reply |-> "Err", fatal |-> FALSE]
    ELSE [camera |-> NoCamera, dims |-> dims,
          cur_fps |-> cur_fps, frame_interval |-> frame_interval,
          reply |-> "Err", fatal |-> TRUE]

\* CaptureAction::ChangeFps (pipeline.rs 161-193).
CaptureChangeFps ==
    /\ cap_pc = "drain"
    /\ capture_cmds # <<>>
    /\ Head(capture_cmds).type = "ChangeFps"
    /\ \E new_ok \in BOOLEAN, rollback_ok \in BOOLEAN :
        LET o == ChangeFpsOutcome(Head(capture_cmds), new_ok, rollback_ok) IN
        /\ camera' = o.camera
        /\ dims' = o.dims
        /\ cur_fps' = o.cur_fps
        /\ frame_interval' = o.frame_interval
        /\ capture_reply' = o.reply
        /\ shutdown' = (shutdown \/ o.fatal)
        /\ cap_pc' = IF o.fatal THEN "done" ELSE cap_pc
    /\ capture_cmds' = Tail(capture_cmds)
    /\ UNCHANGED <<extVars, cur_index, cur_resolution, consecutive_errors, backoff_i,
                   capture_q, renVars, render_cmds, gui_raw,
                   gui_rendered, outVars>>

\* camera.capture_frame() returned Ok (pipeline.rs 197-226).  The render
\* thread owns capture_rx, so the channel is disconnected once it has exited.
CaptureFrameOk ==
    /\ cap_pc = "drain"
    /\ capture_cmds = <<>>
    /\ consecutive_errors' = 0
    /\ gui_raw' = TrySend(gui_raw, PreviewCap, Frame)
    /\ IF ren_pc = "done"
       THEN /\ shutdown' = TRUE
            /\ cap_pc' = "done"
            /\ UNCHANGED capture_q
       ELSE /\ capture_q' = TrySend(capture_q, CaptureQueueCap, Frame)
            /\ cap_pc' = "pace"
            /\ UNCHANGED shutdown
    /\ UNCHANGED <<extVars, camera, cur_index, cur_resolution, cur_fps, frame_interval,
                   dims, backoff_i, capture_reply, capture_cmds,
                   renVars, render_cmds, gui_rendered, outVars>>

\* A capture loop that allows one more failure before it reconnects.
ReconnectDueLate(errors) == errors > ReconnectThreshold

\* if consecutive_errors >= 30 (pipeline.rs 233).
ReconnectDue(errors) == errors >= ReconnectThreshold

\* camera.capture_frame() returned Err (pipeline.rs 227-255).
CaptureFrameErr ==
    /\ cap_pc = "drain"
    /\ capture_cmds = <<>>
    /\ consecutive_errors' = consecutive_errors + 1
    /\ IF ReconnectDue(consecutive_errors + 1)
       THEN /\ camera' = NoCamera
            /\ cap_pc' = "reconnect"
       ELSE /\ cap_pc' = "pace"
            /\ UNCHANGED camera
    /\ UNCHANGED <<extVars, shutdown, cur_index, cur_resolution, cur_fps,
                   frame_interval, dims, backoff_i, capture_reply,
                   capture_q, capture_cmds, renVars, render_cmds, gui_raw,
                   gui_rendered, outVars>>

\* Rate limit to target FPS (pipeline.rs 257-261).
CapturePace ==
    /\ cap_pc = "pace"
    /\ cap_pc' = "check"
    /\ UNCHANGED <<extVars, shutdown, camera, cur_index, cur_resolution, cur_fps,
                   frame_interval, dims, consecutive_errors, backoff_i,
                   capture_reply, capture_q, capture_cmds, renVars,
                   render_cmds, gui_raw, gui_rendered, outVars>>

\* A reconnect loop that never looks at the shutdown flag.
ReconnectIgnoresShutdown == FALSE

\* What reconnect_camera's shutdown.load() reads (pipeline.rs 528, 542).
ReconnectSeesShutdown == shutdown

\* A reconnect that gives up after a failed attempt.
AfterReconnectAttemptGivesUp(ok) == IF ok THEN "check" ELSE "done"

\* reconnect_camera after one open attempt: Some(camera) goes back to the
\* capture loop, a failure to the 2 s wait and then the next attempt
\* (pipeline.rs 532-548, 243-252).
AfterReconnectAttempt(ok) == IF ok THEN "check" ELSE "backoff"

\* reconnect_camera: the shutdown check and one open attempt (pipeline.rs
\* 527-539), and what the caller does with the result (243-252).
ReconnectAttempt ==
    /\ cap_pc = "reconnect"
    /\ IF ReconnectSeesShutdown
       THEN /\ cap_pc' = "done"
            /\ UNCHANGED <<camera, dims, consecutive_errors, backoff_i>>
       ELSE \E ok \in BOOLEAN :
            /\ cap_pc' = AfterReconnectAttempt(ok)
            /\ IF ok
               THEN /\ camera' = <<cur_index, cur_resolution, cur_fps>>
                    /\ dims' = CameraResolution(cur_resolution)
                    /\ consecutive_errors' = 0
                    /\ UNCHANGED backoff_i
               ELSE /\ backoff_i' = 0
                    /\ UNCHANGED <<camera, dims, consecutive_errors>>
    /\ UNCHANGED <<extVars, shutdown, cur_index, cur_resolution, cur_fps,
                   frame_interval, capture_reply, capture_q,
                   capture_cmds, renVars, render_cmds, gui_raw, gui_rendered,
                   outVars>>

\* reconnect_camera: one iteration of the 20 x 100 ms wait (pipeline.rs 541-546).
ReconnectBackoff ==
    /\ cap_pc = "backoff"
    /\ IF ReconnectSeesShutdown
       THEN /\ cap_pc' = "done"
            /\ UNCHANGED backoff_i
       ELSE IF backoff_i + 1 < ReconnectSleeps
       THEN /\ backoff_i' = backoff_i + 1
            /\ UNCHANGED cap_pc
       ELSE /\ backoff_i' = 0
            /\ cap_pc' = "reconnect"
    /\ UNCHANGED <<extVars, shutdown, camera, cur_index, cur_resolution, cur_fps,
                   frame_interval, dims, consecutive_errors,
                   capture_reply, capture_q, capture_cmds, renVars,
                   render_cmds, gui_raw, gui_rendered, outVars>>

CaptureStep ==
    \/ CaptureOpen \/ CaptureCheck \/ CaptureChangeCamera \/ CaptureChangeFps
    \/ CaptureFrameOk \/ CaptureFrameErr \/ CapturePace
    \/ ReconnectAttempt \/ ReconnectBackoff

\* -------------------------------------------------------- render thread

\* AsciiRenderer::render: the output buffer always has output_w*output_h*3
\* bytes (renderer.rs 118-121); the grid is that of the renderer used.
Render(r, frame) ==
    [len |-> r.output_width * r.output_height * 3,
     ascii_cols |-> r.ascii_cols, ascii_rows |-> r.ascii_rows]

\* The output thread owns the receiver of the channel behind the sink slot.
OutputReceiverAlive == out_pc \in {"check", "recv"}

\* if shutdown_render.load() { break } (pipeline.rs 274-277).  Exiting drops
\* capture_rx, and with it the frames still queued.
RenderCheck ==
    /\ ren_pc = "check"
    /\ IF shutdown
       THEN /\ ren_pc' = "done"
            /\ capture_q' = <<>>
       ELSE /\ ren_pc' = "drain"
            /\ UNCHANGED capture_q
    /\ UNCHANGED <<extVars, shutdown, capVars, capture_cmds, renderer,
                   render_reply, render_cmds, gui_raw, gui_rendered, outVars>>

\* A rebuild that has already given up the old renderer when construction
\* fails, and falls back to the start-up one.
RendererAfterRebuildDropsOld(old, built) ==
    IF built.ok THEN built.r ELSE InitialRenderer

\* The renderer slot after a rebuild attempt: replaced on Ok, kept on Err
\* (pipeline.rs 305-316).
RendererAfterRebuild(old, built) == IF built.ok THEN built.r ELSE old

\* A rebuild that sizes the new renderer's output by the camera's frames.
RebuildOutputSizeOfCamera(r) == dims

\* let out_w = renderer.output_width; let out_h = renderer.output_height
\* (pipeline.rs 291-292).
RebuildOutputSize(r) == <<r.output_width, r.output_height>>

\* RenderAction::Rebuild (pipeline.rs 280-320).
RenderRebuild ==
    /\ ren_pc = "drain"
    /\ render_cmds # <<>>
    /\ \E glyph \in GlyphOutcomes :
        LET cmd == Head(render_cmds)
            out_w == RebuildOutputSize(renderer)[1]
            out_h == RebuildOutputSize(renderer)[2]
            built == AsciiRendererNew(glyph, out_w, out_h, cmd.ascii_columns)
        IN  /\ renderer' = RendererAfterRebuild(renderer, built)
            /\ render_reply' = IF built.ok THEN "Ok" ELSE "Err"
    /\ render_cmds' = Tail(render_cmds)
    /\ UNCHANGED <<extVars, shutdown, capVars, capture_q, capture_cmds, ren_pc,
                   gui_raw, gui_rendered, outVars>>

\* A render thread that keeps the sender it was started with instead of
\* reading the slot: frames reach only the output attached at start.
SinkSendOriginalOnly(rendered) ==
    IF render_to_output_tx /\ OutputReceiverAlive /\ start_result = "none"
    THEN TrySend(out_q, OutputQueueCap, rendered)
    ELSE out_q

\* The send through the swappable sink slot: nothing when the slot is None,
\* a try_send otherwise, whose Full or Disconnected error is ignored
\* (pipeline.rs 339-344).
SinkSend(rendered) ==
    IF render_to_output_tx /\ OutputReceiverAlive
    THEN TrySend(out_q, OutputQueueCap, rendered)
    ELSE out_q

\* A render loop that breaks, raising shutdown, when it cannot reach the sink.
AfterSinkSendBreaks ==
    IF render_to_output_tx /\ OutputReceiverAlive /\ Len(out_q) < OutputQueueCap
    THEN "check" ELSE "done"

\* Where the render loop goes after the sink send: always on to the next
\* iteration (pipeline.rs 336-345).
AfterSinkSend == "check"

\* recv_timeout returned a frame (pipeline.rs 322-346).
RenderFrame ==
    /\ ren_pc = "drain"
    /\ render_cmds = <<>>
    /\ capture_q # <<>>
    /\ LET rendered == Render(renderer, Head(capture_q)) IN
        /\ gui_rendered' = TrySend(gui_rendered, PreviewCap, rendered)
        /\ out_q' = SinkSend(rendered)
    /\ capture_q' = Tail(capture_q)
    /\ ren_pc' = AfterSinkSend
    /\ shutdown' = (shutdown \/ AfterSinkSend = "done")
    /\ UNCHANGED <<extVars, capVars, capture_cmds, renderer, render_reply,
                   render_cmds, gui_raw, render_to_output_tx, out_pc,
                   output_handle, output_shutdown, out_flag, sink,
                   ctl_pc, start_result>>

\* recv_timeout timed out: the queue is empty and capture still holds the
\* sender (pipeline.rs 347).
RenderTimeout ==
    /\ ren_pc = "drain"
    /\ render_cmds = <<>>
    /\ capture_q = <<>>
    /\ cap_pc # "done"
    /\ ren_pc' = "check"
    /\ UNCHANGED <<extVars, shutdown, capVars, capture_q, capture_cmds, renderer,
                   render_reply, render_cmds, gui_raw, gui_rendered, outVars>>

\* recv_timeout found the channel empty and disconnected (pipeline.rs 348-352).
RenderDisconnected ==
    /\ ren_pc = "drain"
    /\ render_cmds = <<>>
    /\ capture_q = <<>>
    /\ cap_pc = "done"
    /\ shutdown' = TRUE
    /\ ren_pc' = "done"
    /\ UNCHANGED <<extVars, capVars, capture_q, capture_cmds, renderer, render_reply,
                   render_cmds, gui_raw, gui_rendered, outVars>>

RenderStep ==
    \/ RenderCheck \/ RenderRebuild \/ RenderFrame
    \/ RenderTimeout \/ RenderDisconnected

\* -------------------------------------------------------- output thread

\* An output thread that looks at its own stop flag only.
OutputStopOwnFlagOnly == out_flag

\* shutdown_output.load() || pipeline_shutdown.load() (pipeline.rs 377-379,
\* 453-455).
OutputStopRequested == out_flag \/ shutdown

\* if shutdown_output.load() || pipeline_shutdown.load() { break }
\* (pipeline.rs 377-382, 453-458).  Exiting drops the receiver, which
\* discards whatever the channel still holds.
OutputCheck ==
    /\ out_pc = "check"
    /\ IF OutputStopRequested
       THEN /\ out_pc' = "done"
            /\ out_q' = <<>>
       ELSE /\ out_pc' = "recv"
            /\ UNCHANGED out_q
    /\ UNCHANGED <<extVars, shutdown, capVars, capture_q, capture_cmds, renVars,
                   render_cmds, gui_raw, gui_rendered, render_to_output_tx,
                   output_handle, output_shutdown, out_flag, sink,
                   ctl_pc, start_result>>

\* An output thread that exits on a write error without raising the
\* pipeline's shutdown flag.
WriteOutcomeQuietExit(ok) ==
    IF ok
    THEN [sink |-> "written", shutdown |-> shutdown, next |-> "check"]
    ELSE [sink |-> "failed", shutdown |-> shutdown, next |-> "done"]

\* write_frame's result and what the output loop does with it
\* (pipeline.rs 386-393, 462-469).
WriteOutcome(ok) ==
    IF ok
    THEN [sink |-> "written", shutdown |-> shutdown, next |-> "check"]
    ELSE [sink |-> "failed", shutdown |-> TRUE, next |-> "done"]

\* recv_timeout returned a frame; write_frame succeeds or fails
\* (pipeline.rs 384-394, 460-470).
OutputWrite ==
    /\ out_pc = "recv"
    /\ out_q # <<>>
    /\ \E ok \in BOOLEAN :
        LET o == WriteOutcome(ok) IN
        /\ sink' = o.sink
        /\ shutdown' = o.shutdown
        /\ out_pc' = o.next
        /\ out_q' = IF o.next = "done" THEN <<>> ELSE Tail(out_q)
    /\ UNCHANGED <<extVars, capVars, capture_q, capture_cmds, renVars, render_cmds,
                   gui_raw, gui_rendered, render_to_output_tx, output_handle,
                   output_shutdown, out_flag, ctl_pc, start_result>>

\* recv_timeout timed out (pipeline.rs 395, 471).
OutputTimeout ==
    /\ out_pc = "recv"
    /\ out_q = <<>>
    /\ render_to_output_tx
    /\ out_pc' = "check"
    /\ UNCHANGED <<extVars, shutdown, capVars, capture_q, capture_cmds, renVars,
                   render_cmds, gui_raw, gui_rendered, render_to_output_tx,
                   out_q, output_handle, output_shutdown, out_flag,
                   sink, ctl_pc, start_result>>

\* The sender was taken by stop_output (pipeline.rs 396-399, 472-475).
OutputDisconnected ==
    /\ out_pc = "recv"
    /\ out_q = <<>>
    /\ ~render_to_output_tx
    /\ out_pc' = "done"
    /\ UNCHANGED <<extVars, shutdown, capVars, capture_q, capture_cmds, renVars,
                   render_cmds, gui_raw, gui_rendered, render_to_output_tx,
                   out_q, output_handle, output_shutdown, out_flag,
                   sink, ctl_pc, start_result>>

OutputStep ==
    \/ OutputCheck \/ OutputWrite \/ OutputTimeout \/ OutputDisconnected

\* ------------------------------------------------- owner of the Pipeline

\* A start_output that does not look at the handle it holds.
OutputAlreadyRunningUnchecked == FALSE

\* if self.output_handle.is_some() (pipeline.rs 429).
OutputAlreadyRunning == output_handle

\* Pipeline::start_output (pipeline.rs 428-482).
StartOutput ==
    /\ ctl_pc = "idle"
    /\ IF OutputAlreadyRunning
       THEN /\ start_result' = "Err"
            /\ UNCHANGED <<render_to_output_tx, out_q, out_pc, output_handle,
                           output_shutdown, out_flag, sink>>
       ELSE /\ render_to_output_tx' = TRUE
            /\ out_q' = <<>>
            /\ out_flag' = FALSE
            /\ out_pc' = "check"
            /\ output_handle' = TRUE
            /\ output_shutdown' = TRUE
            /\ sink' = "fresh"
            /\ start_result' = "Ok"
    /\ UNCHANGED <<extVars, shutdown, capVars, capture_q, capture_cmds, renVars,
                   render_cmds, gui_raw, gui_rendered, ctl_pc>>

\* Pipeline::stop_output up to the join (pipeline.rs 485-501).
StopOutputBegin ==
    /\ ctl_pc = "idle"
    /\ render_to_output_tx' = FALSE
    /\ out_flag' = IF output_shutdown THEN TRUE ELSE out_flag
    /\ IF output_handle
       THEN /\ ctl_pc' = "stop_join"
            /\ UNCHANGED output_shutdown
       ELSE /\ output_shutdown' = FALSE
            /\ UNCHANGED ctl_pc
    /\ UNCHANGED <<extVars, shutdown, capVars, capture_q, capture_cmds, renVars,
                   render_cmds, gui_raw, gui_rendered, out_q, out_pc,
                   output_handle, sink, start_result>>

\* A stop_output that drops the handle without waiting for the thread.
JoinableAlways(pc) == TRUE

\* handle.join() returns once the thread has exited (pipeline.rs 553-555).
Joinable(pc) == pc = "done"

\* Pipeline::stop_output: join_with_panic_log returns once the output thread
\* has exited (pipeline.rs 501-505).
StopOutputJoin ==
    /\ ctl_pc = "stop_join"
    /\ Joinable(out_pc)
    /\ out_pc' = "none"
    /\ output_handle' = FALSE
    /\ output_shutdown' = FALSE
    /\ ctl_pc' = "idle"
    /\ UNCHANGED <<extVars, shutdown, capVars, capture_q, capture_cmds, renVars,
                   render_cmds, gui_raw, gui_rendered, render_to_output_tx,
                   out_q, out_flag, sink, start_result>>

\* ----------------------------------------------------------- environment

\* An operator queues a capture command (control.rs 437-446, 464-470;
\* gui/app.rs 135-148).
SendCaptureCommand ==
    /\ Len(capture_cmds) < Min(MaxPending, CommandQueueCap)
    /\ \E a \in CaptureActions : capture_cmds' = Append(capture_cmds, a)
    /\ UNCHANGED <<extVars, shutdown, capVars, capture_q, renVars, render_cmds,
                   gui_raw, gui_rendered, outVars>>

\* An operator queues a render command (control.rs 500-513; gui/app.rs 150-171).
SendRenderCommand ==
    /\ Len(render_cmds) < Min(MaxPending, CommandQueueCap)
    /\ \E a \in RenderActions : render_cmds' = Append(render_cmds, a)
    /\ UNCHANGED <<extVars, shutdown, capVars, capture_q, capture_cmds, renVars,
                   gui_raw, gui_rendered, outVars>>

\* Ctrl-C (main.rs 109-112) or the GUI's stop (gui/pipeline_bridge.rs 94).
RequestShutdown ==
    /\ ~shutdown
    /\ shutdown' = TRUE
    /\ UNCHANGED <<extVars, capVars, capture_q, capture_cmds, renVars, render_cmds,
                   gui_raw, gui_rendered, outVars>>

\* The viewer empties both preview taps (gui/app.rs 47-91).
PollPreview ==
    /\ gui_raw # <<>> \/ gui_rendered # <<>>
    /\ gui_raw' = <<>>
    /\ gui_rendered' = <<>>
    /\ UNCHANGED <<extVars, shutdown, capVars, capture_q, capture_cmds, renVars,
                   render_cmds, outVars>>

\* ------------------------------------- control socket: reading and parsing

\* The lines a client may send.  value is the number the text parses to, or
\* Unparsable when it is not a number; len is the line's length in bytes.
Unparsable == -2
SetLine(key, value) == [kind |-> "set", key |-> key, value |-> value, len |-> 16]
Lines ==
    { SetLine("camera_index", 1),
      SetLine("fps", 15), SetLine("fps", 0),
      SetLine("definition", 5),
      SetLine("contrast", Unparsable),
      [kind |-> "noeq", key |-> "fps", value |-> Unparsable, len |-> 8],
      [kind |-> "set", key |-> "definition", value |-> 5, len |-> 5000],
      [kind |-> "status", key |-> "", value |-> Unparsable, len |-> 7] }

\* Every request of 0..n lines.
Requests(n) == UNION {[1..k -> Lines] : k \in 0..n}

Response(text, arg) == [text |-> text, arg |-> arg]

\* The error responses of the SET loop (control.rs 281-394).
ParseErrorTexts ==
    {"ERR unknown command", "ERR invalid format", "ERR invalid camera_index",
     "ERR invalid fps", "ERR invalid definition", "ERR unknown key"}

\* The read loop (control.rs 240-262): lines are collected until EOF; a line
\* longer than MAX_LINE_LENGTH or the MAX_COMMANDS_PER_CONNECTION-th line
\* ends the connection with a single error.
RECURSIVE ReadLines(_, _)
ReadLines(input, collected) ==
    IF input = <<>>
    THEN [abort |-> FALSE, commands |-> collected, responses |-> <<>>]
    ELSE IF Head(input).len > MAX_LINE_LENGTH
    THEN [abort |-> TRUE, commands |-> collected,
          responses |-> <<Response("ERR line too long", 0)>>]
    ELSE IF Len(collected) + 1 >= MAX_COMMANDS_PER_CONNECTION
    THEN [abort |-> TRUE, commands |-> Append(collected, Head(input)),
          responses |-> <<Response("ERR too many commands", 0)>>]
    ELSE ReadLines(Tail(input), Append(collected, Head(input)))

\* definition_to_params: the column count of a definition level
\* (config.rs 301-325).
DefinitionColumns(level) ==
    CASE level = 1 -> 40
      [] level = 2 -> 50
      [] level = 3 -> 60
      [] level = 4 -> 70
      [] level = 5 -> 80
      [] level = 6 -> 100
      [] OTHER -> 80

\* A SET loop in which a line that fails to parse also discards the changes
\* collected from the lines before it.
ParseLineDiscarding(cmd, acc, max_fps) ==
    IF cmd.kind = "set" /\ cmd.key \in {"camera_index", "fps", "definition"}
       /\ cmd.value >= 1 /\ cmd.value <= max_fps
    THEN IF cmd.key = "camera_index"
         THEN [acc EXCEPT !.capture.camera_index = cmd.value]
         ELSE IF cmd.key = "fps"
         THEN [acc EXCEPT !.capture.fps = cmd.value]
         ELSE [acc EXCEPT !.render.definition = cmd.value]
    ELSE [capture |-> NoCaptureChanges, render |-> NoRenderChanges,
          responses |-> Append(acc.responses, Response("ERR unknown key", cmd.value))]

\* One iteration of the SET loop (control.rs 281-394): the line either
\* updates the change sets or adds one error response.
ParseLine(cmd, acc, max_fps) ==
    LET err(text) == [acc EXCEPT !.responses = Append(@, Response(text, cmd.value))]
    IN
    IF cmd.kind \notin {"set", "noeq"} THEN err("ERR unknown command")
    ELSE IF cmd.kind = "noeq" THEN err("ERR invalid format")
    ELSE IF cmd.key = "camera_index"
    THEN IF cmd.value >= 0
         THEN [acc EXCEPT !.capture.camera_index = cmd.value]
         ELSE err("ERR invalid camera_index")
    ELSE IF cmd.key = "fps"
    THEN IF cmd.value >= 1 /\ cmd.value <= max_fps
         THEN [acc EXCEPT !.capture.fps = cmd.value]
         ELSE err("ERR invalid fps")
    ELSE IF cmd.key = "definition"
    THEN IF cmd.value >= 1 /\ cmd.value <= 10
         THEN [acc EXCEPT !.render.definition = cmd.value]
         ELSE err("ERR invalid definition")
    ELSE err("ERR unknown key")

RECURSIVE ParseCommands(_, _, _)
ParseCommands(cmds, acc, max_fps) ==
    IF cmds = <<>> THEN acc
    ELSE ParseCommands(Tail(cmds), ParseLine(Head(cmds), acc, max_fps), max_fps)

\* CaptureChanges::has_changes, RenderChanges::has_changes (control.rs 549-574).
CaptureHasChanges(cc) ==
    cc.camera_index # None \/ cc.resolution # None \/ cc.fps # None
RenderHasChanges(rc) == rc.definition # None

\* needs_camera_change (control.rs 418-419).
NeedsCameraChange(cc) == cc.camera_index # None \/ cc.resolution # None

\* The order in which handle_connection routes the parsed changes
\* (control.rs 412-532): camera, then fps, then render, then the responses
\* are written.
NextStage(after, cc, rc) ==
    IF after = "parse" /\ NeedsCameraChange(cc) THEN "cam_send"
    ELSE IF after \in {"parse", "cam"} /\ cc.fps # None THEN "fps_send"
    ELSE IF after \in {"parse", "cam", "fps"} /\ RenderHasChanges(rc) THEN "ren_send"
    ELSE "closed"

\* --------------------------------------- control socket: handle_connection

\* What detect::max_fps_for_resolution reports for a newly opened camera, or
\* the default when it reports nothing (control.rs 438-450).
MaxFpsOutcomes == {10, DefaultMaxFps}

\* The state of the workers, which the handler never writes.
workerVars == <<shutdown, capVars, capture_q, renVars, gui_raw, gui_rendered,
                outVars>>

\* listener.accept() hands a connection to handle_connection while the
\* shutdown flag is clear (control.rs 175-206).
Accept(input) ==
    /\ hc_pc = "idle"
    /\ ~shutdown
    /\ request' = input
    /\ hc_pc' = "accepted"
    /\ UNCHANGED <<workerVars, capture_cmds, render_cmds, capture_changes,
                   render_changes, responses, state, appVars, rainVars, callVars, lockVars, cmdVars, frameVars>>

\* A client (`virtual-ascii set`, main.rs 175-223, or any program of the
\* same user) connects with a request while few commands are pending.
ClientConnect ==
    /\ Len(capture_cmds) < MaxPending
    /\ Len(render_cmds) < MaxPending
    /\ \E input \in Requests(MaxLines) : Accept(input)

\* A client that keeps asking for a frame rate, whatever is pending.
ClientRetryFps == \E input \in {<<SetLine("fps", 15)>>} : Accept(input)

\* A batch whose first line only is looked at for STATUS.
HasStatusFirstLineOnly(commands) ==
    commands # <<>> /\ commands[1].kind = "status"

\* commands.iter().any(|c| c.eq_ignore_ascii_case("STATUS")) (control.rs
\* 268): some line of the batch, in any letter case, is STATUS.
HasStatus(commands) ==
    \E i \in 1..Len(commands) : commands[i].kind = "status"

\* The handler reads the request, answers STATUS or parses the SET lines,
\* and decides what to route first (control.rs 236-419).
HandlerRead ==
    /\ hc_pc = "accepted"
    /\ LET input == request IN
        LET rd == ReadLines(input, <<>>)
            parsed == ParseCommands(rd.commands,
                                    [capture |-> NoCaptureChanges,
                                     render |-> NoRenderChanges,
                                     responses |-> <<>>],
                                    state.max_fps)
            status == HasStatus(rd.commands)
            done == rd.abort \/ rd.commands = <<>> \/ status
        IN  /\ request' = <<>>
            /\ capture_changes' = IF done THEN NoCaptureChanges ELSE parsed.capture
            /\ render_changes' = IF done THEN NoRenderChanges ELSE parsed.render
            /\ responses' = IF rd.abort THEN rd.responses
                            ELSE IF rd.commands = <<>> THEN <<>>
                            ELSE IF status THEN <<Response("STATUS", 0)>>
                            ELSE parsed.responses
            /\ hc_pc' = IF done THEN "closed"
                        ELSE NextStage("parse", parsed.capture, parsed.render)
    /\ UNCHANGED <<workerVars, capture_cmds, render_cmds, state, appVars, rainVars, callVars, lockVars, cmdVars, frameVars>>

\* Sender::send on a bounded channel whose receiver is alive: the caller is
\* suspended for as long as the queue is full (control.rs 430, 470, 514).
SendBlocked(q, cap) == Len(q) >= cap

\* cam_idx and resolution of the ChangeCamera command (control.rs 413-414).
RequestedCamera ==
    [index |-> IF capture_changes.camera_index # None
               THEN capture_changes.camera_index ELSE state.camera_index,
     resolution |-> IF capture_changes.resolution # None
                    THEN capture_changes.resolution ELSE state.resolution]

\* capture_cmd_tx.send(ChangeCamera) (control.rs 421-430, 459-461).  The
\* capture thread owns the receiver: once it has exited the send fails.
HandlerSendCamera ==
    /\ hc_pc = "cam_send"
    /\ IF cap_pc = "done"
       THEN /\ responses' = Append(responses, Response("ERR pipeline shutting down", 0))
            /\ hc_pc' = NextStage("cam", capture_changes, render_changes)
            /\ UNCHANGED capture_cmds
       ELSE /\ ~SendBlocked(capture_cmds, CommandQueueCap)
            /\ capture_cmds' = TrySend(capture_cmds, CommandQueueCap,
                                       ChangeCamera(RequestedCamera.index,
                                                    RequestedCamera.resolution))
            /\ hc_pc' = "cam_wait"
            /\ UNCHANGED responses
    /\ UNCHANGED <<workerVars, render_cmds, request, capture_changes,
                   render_changes, state, appVars, rainVars, callVars, lockVars, cmdVars, frameVars>>

\* RuntimeState after the reply to ChangeCamera (control.rs 432-457).
StateAfterCamera(st, reply, req, new_max) ==
    IF reply = "Ok"
    THEN [st EXCEPT !.camera_index = req.index,
                    !.resolution = req.resolution,
                    !.max_fps = new_max,
                    !.fps = Min(st.fps, new_max)]
    ELSE st

\* The command the handler waits for is the last one it queued, so its reply
\* has been sent once the capture thread has emptied the queue.
CaptureReplied == capture_cmds = <<>>

\* resp_rx.recv_timeout(5 s) after ChangeCamera returns the reply
\* (control.rs 431-456).
HandlerCameraReply ==
    /\ hc_pc = "cam_wait"
    /\ CaptureReplied
    /\ \E new_max \in MaxFpsOutcomes :
        /\ state' = StateAfterCamera(state, capture_reply, RequestedCamera, new_max)
        /\ responses' = Append(responses,
                               Response(IF capture_reply = "Ok"
                                        THEN "OK camera_index" ELSE "ERR camera",
                                        RequestedCamera.index))
    /\ hc_pc' = NextStage("cam", capture_changes, render_changes)
    /\ UNCHANGED <<workerVars, capture_cmds, render_cmds, request,
                   capture_changes, render_changes, appVars, rainVars, callVars, lockVars, cmdVars, frameVars>>

\* resp_rx.recv_timeout(5 s) after ChangeCamera gives up (control.rs 457):
\* five seconds have passed, or the worker exited with the command queued.
HandlerCameraTimeout ==
    /\ hc_pc = "cam_wait"
    /\ ~CaptureReplied
    /\ responses' = Append(responses, Response("ERR camera change timed out", 0))
    /\ UNCHANGED state
    /\ hc_pc' = NextStage("cam", capture_changes, render_changes)
    /\ UNCHANGED <<workerVars, capture_cmds, render_cmds, request,
                   capture_changes, render_changes, appVars, rainVars, callVars, lockVars, cmdVars, frameVars>>

\* capture_cmd_tx.send(ChangeFps) (control.rs 464-470, 480-482).
HandlerSendFps ==
    /\ hc_pc = "fps_send"
    /\ IF cap_pc = "done"
       THEN /\ responses' = Append(responses, Response("ERR pipeline shutting down", 0))
            /\ hc_pc' = NextStage("fps", capture_changes, render_changes)
            /\ UNCHANGED capture_cmds
       ELSE /\ ~SendBlocked(capture_cmds, CommandQueueCap)
            /\ capture_cmds' = TrySend(capture_cmds, CommandQueueCap,
                                       ChangeFps(capture_changes.fps))
            /\ hc_pc' = "fps_wait"
            /\ UNCHANGED responses
    /\ UNCHANGED <<workerVars, render_cmds, request, capture_changes,
                   render_changes, state, appVars, rainVars, callVars, lockVars, cmdVars, frameVars>>

\* RuntimeState after the reply to ChangeFps (control.rs 472-478).
StateAfterFps(st, reply, new_fps) ==
    IF reply = "Ok" THEN [st EXCEPT !.fps = new_fps] ELSE st

\* resp_rx.recv_timeout(5 s) after ChangeFps returns the reply
\* (control.rs 471-477).
HandlerFpsReply ==
    /\ hc_pc = "fps_wait"
    /\ CaptureReplied
    /\ state' = StateAfterFps(state, capture_reply, capture_changes.fps)
    /\ responses' = Append(responses,
                           Response(IF capture_reply = "Ok"
                                    THEN "OK fps" ELSE "ERR fps",
                                    capture_changes.fps))
    /\ hc_pc' = NextStage("fps", capture_changes, render_changes)
    /\ UNCHANGED <<workerVars, capture_cmds, render_cmds, request,
                   capture_changes, render_changes, appVars, rainVars, callVars, lockVars, cmdVars, frameVars>>

\* resp_rx.recv_timeout(5 s) after ChangeFps gives up (control.rs 478).
HandlerFpsTimeout ==
    /\ hc_pc = "fps_wait"
    /\ ~CaptureReplied
    /\ responses' = Append(responses, Response("ERR fps change timed out", 0))
    /\ UNCHANGED state
    /\ hc_pc' = NextStage("fps", capture_changes, render_changes)
    /\ UNCHANGED <<workerVars, capture_cmds, render_cmds, request,
                   capture_changes, render_changes, appVars, rainVars, callVars, lockVars, cmdVars, frameVars>>

\* definition of the Rebuild command (control.rs 493).
RequestedDefinition ==
    IF render_changes.definition # None
    THEN render_changes.definition ELSE state.definition

\* render_cmd_tx.send(Rebuild) (control.rs 499-514, 529-531).
HandlerSendRender ==
    /\ hc_pc = "ren_send"
    /\ IF ren_pc = "done"
       THEN /\ responses' = Append(responses, Response("ERR pipeline shutting down", 0))
            /\ hc_pc' = "closed"
            /\ UNCHANGED render_cmds
       ELSE /\ ~SendBlocked(render_cmds, CommandQueueCap)
            /\ render_cmds' = TrySend(render_cmds, CommandQueueCap,
                                      Rebuild(DefinitionColumns(RequestedDefinition)))
            /\ hc_pc' = "ren_wait"
            /\ UNCHANGED responses
    /\ UNCHANGED <<workerVars, capture_cmds, request, capture_changes,
                   render_changes, state, appVars, rainVars, callVars, lockVars, cmdVars, frameVars>>

\* RuntimeState after the reply to Rebuild (control.rs 516-528).
StateAfterRender(st, reply, definition) ==
    IF reply = "Ok" THEN [st EXCEPT !.definition = definition] ELSE st

RenderReplied == render_cmds = <<>>

\* resp_rx.recv_timeout(5 s) after Rebuild returns the reply
\* (control.rs 515-526).
HandlerRenderReply ==
    /\ hc_pc = "ren_wait"
    /\ RenderReplied
    /\ state' = StateAfterRender(state, render_reply, RequestedDefinition)
    /\ responses' = Append(responses,
                           Response(IF render_reply = "Ok"
                                    THEN "OK renderer rebuilt" ELSE "ERR renderer",
                                    RequestedDefinition))
    /\ hc_pc' = "closed"
    /\ UNCHANGED <<workerVars, capture_cmds, render_cmds, request,
                   capture_changes, render_changes, appVars, rainVars, callVars, lockVars, cmdVars, frameVars>>

\* resp_rx.recv_timeout(5 s) after Rebuild gives up (control.rs 527).
HandlerRenderTimeout ==
    /\ hc_pc = "ren_wait"
    /\ ~RenderReplied
    /\ responses' = Append(responses, Response("ERR render rebuild timed out", 0))
    /\ UNCHANGED state
    /\ hc_pc' = "closed"
    /\ UNCHANGED <<workerVars, capture_cmds, render_cmds, request,
                   capture_changes, render_changes, appVars, rainVars, callVars, lockVars, cmdVars, frameVars>>

\* The responses are written and the connection is dropped (control.rs
\* 534-538); the listener goes back to accept.
HandlerClose ==
    /\ hc_pc = "closed"
    /\ hc_pc' = "idle"
    /\ request' = <<>>
    /\ capture_changes' = NoCaptureChanges
    /\ render_changes' = NoRenderChanges
    /\ responses' = <<>>
    /\ UNCHANGED <<workerVars, capture_cmds, render_cmds, state, appVars, rainVars, callVars, lockVars, cmdVars, frameVars>>

HandlerStep ==
    \/ HandlerRead
    \/ HandlerSendCamera \/ HandlerCameraReply \/ HandlerCameraTimeout
    \/ HandlerSendFps \/ HandlerFpsReply \/ HandlerFpsTimeout
    \/ HandlerSendRender \/ HandlerRenderReply \/ HandlerRenderTimeout
    \/ HandlerClose

\* ------------------------------------------------- the GUI application

\* The operator picks another camera in the settings panel while the
\* pipeline runs (gui/panels.rs 45-61): change_camera try_sends ChangeCamera
\* with a reply channel whose receiver is dropped at once, and stores the
\* index in GuiState (gui/pipeline_bridge.rs 160-173).
GuiChangeCamera ==
    /\ pipeline_running
    /\ \E new_index \in Cameras \ {gui_camera_index} :
        /\ capture_cmds' = IF cmd_tx_alive
                           THEN TrySend(capture_cmds, CommandQueueCap,
                                        ChangeCamera(new_index, NoRes))
                           ELSE capture_cmds
        /\ gui_camera_index' = new_index
    /\ UNCHANGED <<workerVars, render_cmds, hcVars, pipeline_running,
                   cmd_tx_alive, wait_pc, old_workers, rainVars, callVars, lockVars, cmdVars, frameVars>>

\* The threads of one Pipeline value.
Workers == {"capture", "render", "output"}

\* The thread of the current Pipeline value has exited (or was never spawned).
ThreadEnded(w) ==
    CASE w = "capture" -> cap_pc = "done"
      [] w = "render" -> ren_pc = "done"
      [] w = "output" -> out_pc \in {"none", "done"}

\* stop_pipeline (gui/pipeline_bridge.rs 93-118): store the shutdown flag,
\* drop the command senders and the tap receivers, hand the Pipeline to a
\* background thread that calls wait(), clear pipeline_running.
GuiStopPipeline ==
    /\ pipeline_running
    /\ wait_pc \in {"none", "joined"}
    /\ shutdown' = TRUE
    /\ cmd_tx_alive' = FALSE
    /\ wait_pc' = "join_output"
    /\ pipeline_running' = FALSE
    /\ UNCHANGED <<capVars, capture_q, capture_cmds, renVars, render_cmds,
                   gui_raw, gui_rendered, outVars, hcVars, old_workers,
                   gui_camera_index, rainVars, callVars, lockVars, cmdVars, frameVars>>

\* start_pipeline (gui/pipeline_bridge.rs 16-90) when the probe and the
\* renderer succeed: the only check is pipeline_running.  It makes a fresh
\* shutdown flag and fresh channels and spawns the threads of a new Pipeline
\* value; the threads of the value given to the background wait() are still
\* whatever they were.
GuiStartPipeline ==
    /\ ~pipeline_running
    /\ wait_pc # "none"
    /\ old_workers = {}
    /\ old_workers' = {w \in Workers : ~ThreadEnded(w)}
                        \cup (IF wait_pc = "joined" THEN {} ELSE {"wait"})
    /\ shutdown' = FALSE
    /\ cap_pc' = "init"
    /\ camera' = NoCamera
    /\ cur_index' = gui_camera_index
    /\ cur_resolution' = NoRes
    /\ cur_fps' = 30
    /\ frame_interval' = FrameInterval(30)
    /\ dims' = <<0, 0>>
    /\ consecutive_errors' = 0
    /\ backoff_i' = 0
    /\ capture_q' = <<>>
    /\ capture_cmds' = <<>>
    /\ capture_reply' = "none"
    /\ ren_pc' = "check"
    /\ renderer' = InitialRenderer
    /\ render_cmds' = <<>>
    /\ render_reply' = "none"
    /\ gui_raw' = <<>>
    /\ gui_rendered' = <<>>
    /\ render_to_output_tx' = FALSE
    /\ out_pc' = "none"
    /\ output_handle' = FALSE
    /\ output_shutdown' = FALSE
    /\ out_flag' = FALSE
    /\ out_q' = <<>>
    /\ sink' = "fresh"
    /\ ctl_pc' = "idle"
    /\ start_result' = "none"
    /\ cmd_tx_alive' = TRUE
    /\ pipeline_running' = TRUE
    /\ UNCHANGED <<hcVars, wait_pc, gui_camera_index, rainVars, callVars, lockVars, cmdVars, frameVars>>

\* A thread of the Pipeline value that was stopped earlier reads its
\* shutdown flag, which stop_pipeline stored, and exits.
OldWorkerExit ==
    /\ \E w \in old_workers \cap Workers : old_workers' = old_workers \ {w}
    /\ UNCHANGED <<workerVars, capture_cmds, render_cmds, hcVars,
                   pipeline_running, cmd_tx_alive, wait_pc, gui_camera_index, rainVars, callVars, lockVars, cmdVars, frameVars>>

\* cmd_run calls pipeline.wait() as soon as the pipeline has started
\* (main.rs 156-171); the listener thread keeps the command senders.
RunWait ==
    /\ ~pipeline_running
    /\ wait_pc = "none"
    /\ wait_pc' = "join_output"
    /\ UNCHANGED <<workerVars, capture_cmds, render_cmds, hcVars,
                   pipeline_running, cmd_tx_alive, old_workers, gui_camera_index, rainVars, callVars, lockVars, cmdVars, frameVars>>

\* The thread wait() joins at each position (pipeline.rs 507-516): the
\* output handle, then threads = [capture, render] in order (pipeline.rs 357).
JoinTarget(pc) ==
    CASE pc = "join_output" -> "output"
      [] pc = "join_capture" -> "capture"
      [] pc = "join_render" -> "render"

\* A wait() that joins the render thread before the capture thread.
NextJoinRenderFirst(pc) ==
    CASE pc = "join_output" -> "join_render"
      [] pc = "join_render" -> "join_capture"
      [] pc = "join_capture" -> "joined"

NextJoin(pc) ==
    CASE pc = "join_output" -> "join_capture"
      [] pc = "join_capture" -> "join_render"
      [] pc = "join_render" -> "joined"

\* The thread wait() is joining has exited.  wait() owns the Pipeline value
\* it was called on: the current one, or the one stop_pipeline gave away
\* before start_pipeline made another.
WaitTargetEnded(w) ==
    IF "wait" \in old_workers THEN w \notin old_workers ELSE ThreadEnded(w)

\* One join of Pipeline::wait returns (pipeline.rs 509-514).
WaitJoin ==
    /\ wait_pc \in {"join_output", "join_capture", "join_render"}
    /\ WaitTargetEnded(JoinTarget(wait_pc))
    /\ wait_pc' = NextJoin(wait_pc)
    /\ old_workers' = IF NextJoin(wait_pc) = "joined"
                      THEN old_workers \ {"wait"} ELSE old_workers
    /\ UNCHANGED <<workerVars, capture_cmds, render_cmds, hcVars,
                   pipeline_running, cmd_tx_alive, gui_camera_index, rainVars, callVars, lockVars, cmdVars, frameVars>>

\* ------------------------------------------------ rain animation (rain.rs)

\* (cols, rows, is_movie_mode) the rain state is made with.
RainConfigs == {<<1, 6, TRUE>>, <<2, 3, FALSE>>}

\* Positions are kept in half rows.
PosUnit == 2

\* dt of one advance, in twentieths of a second (renderer.rs 147-152: the
\* time since the previous render, never negative).
DtValues == {0, 10}
DtUnit == 20

\* What the random draws of the generator come to.  speed is
\* 10.0 + (rng % 3500) / 100 rows per second (rain.rs 135).
SpeedDraws == {10, 40}
\* spawn_cooldown = rng % 40 + 20 (rain.rs 233, 238).
CooldownDraws == {20}
\* stagger = rng % 60 (rain.rs 78).
StaggerDraws == {0, 7}

Max(a, b) == IF a > b THEN a ELSE b

\* new_stream (rain.rs 134-156): every stream it can return for a grid of
\* the given height, at position 0.
NewStreams(rows, is_movie_mode) ==
    LET min_trail == Max(rows \div 6, 3)
        max_trail == Max(rows \div 3, min_trail + 1)
        trail_range == max_trail - min_trail
        ghosts(trail_length) ==
            IF is_movie_mode
            THEN LET min_ghost == trail_length \div 2
                     ghost_range == Max(trail_length - min_ghost, 1)
                 IN  {Max(min_ghost + r, 1) : r \in 0..(ghost_range - 1)}
            ELSE {0}
    IN  UNION { { [position |-> 0, speed |-> speed,
                   trail_length |-> min_trail + r, ghost_length |-> g]
                  : g \in ghosts(min_trail + r) }
                : speed \in SpeedDraws, r \in 0..(Max(trail_range, 1) - 1) }

\* MatrixRainState::new (rain.rs 62-96): one stream per column, a staggered
\* cooldown, and every third column's stream moved up by rng % rows rows.
\* (The per-row character tables only pick glyphs and are left out; of the
\* mutation timers, new_column, rain.rs 116-124, the number is kept.)
RainNewStates(cols, rows, is_movie_mode) ==
    LET first(i) ==
            { [streams |-> <<[st EXCEPT !.position = -(back * PosUnit)]>>,
               spawn_cooldown |-> stagger,
               char_timers |-> IF is_movie_mode THEN rows ELSE 0]
              : st \in NewStreams(rows, is_movie_mode),
                stagger \in StaggerDraws,
                back \in IF (i - 1) % 3 = 0 THEN {0, 2} ELSE {0} }
    IN  { [cols |-> cols, rows |-> rows, is_movie_mode |-> is_movie_mode,
           columns |-> c]
          : c \in { f \in [1..cols -> UNION {first(i) : i \in 1..cols}] :
                        \A i \in 1..cols : f[i] \in first(i) } }

\* AsciiRenderer::new builds the rain state of the matrix theme
\* (renderer.rs 78-89; the tests also build the classic mode).
RainNew ==
    /\ rain = NoRain
    /\ \E config \in RainConfigs :
        rain' \in RainNewStates(config[1], config[2], config[3])
    /\ cells' = <<>>
    /\ UNCHANGED <<workerVars, capture_cmds, render_cmds, hcVars, appVars, callVars, lockVars, cmdVars, frameVars>>

\* `position as i32`: the head row, truncated toward zero.
HeadRow(position) ==
    IF position >= 0 THEN position \div PosUnit ELSE -((-position) \div PosUnit)

\* stream.position += stream.speed * dt (rain.rs 167-169).
Moved(stream, dt) ==
    [stream EXCEPT !.position = @ + (stream.speed * dt * PosUnit) \div DtUnit]

\* A retain test that drops a stream as soon as its head has left the grid.
RetainedWhileHeadInGrid(stream, rows) ==
    HeadRow(stream.position) <= rows

\* The retain test (rain.rs 221-225).
Retained(stream, rows) ==
    HeadRow(stream.position) - stream.trail_length - stream.ghost_length <= rows

\* A column that lets a stream start only once the cooldown has run out.
SpawnedAfterCooldown(streams, spawn_cooldown, max_streams, stream, cooldown) ==
    IF spawn_cooldown > 0
    THEN [streams |-> streams, spawn_cooldown |-> spawn_cooldown - 1]
    ELSE IF Len(streams) < max_streams
    THEN [streams |-> Append(streams, stream), spawn_cooldown |-> cooldown]
    ELSE [streams |-> streams, spawn_cooldown |-> spawn_cooldown]

\* A column that lets a stream start whenever it has room for one.
SpawnedWheneverRoom(streams, spawn_cooldown, max_streams, stream, cooldown) ==
    IF Len(streams) < max_streams
    THEN [streams |-> Append(streams, stream), spawn_cooldown |-> cooldown]
    ELSE IF spawn_cooldown > 0
    THEN [streams |-> streams, spawn_cooldown |-> spawn_cooldown - 1]
    ELSE [streams |-> streams, spawn_cooldown |-> spawn_cooldown]

\* The spawn step of advance (rain.rs 228-239); stream and cooldown are what
\* new_stream and the cooldown draw would give.
Spawned(streams, spawn_cooldown, max_streams, stream, cooldown) ==
    IF streams = <<>>
    THEN [streams |-> <<stream>>, spawn_cooldown |-> cooldown]
    ELSE IF spawn_cooldown > 0
    THEN [streams |-> streams, spawn_cooldown |-> spawn_cooldown - 1]
    ELSE IF Len(streams) < max_streams
    THEN [streams |-> Append(streams, stream), spawn_cooldown |-> cooldown]
    ELSE [streams |-> streams, spawn_cooldown |-> spawn_cooldown]

\* A limit of three streams in either mode.
MaxStreamsOfMovie(is_movie_mode) == 3

\* max_streams (rain.rs 162).
MaxStreams(is_movie_mode) == IF is_movie_mode THEN 3 ELSE 1

\* One column's part of advance (rain.rs 165-240); the timers are counted
\* down or reset in place (172-203).
AdvanceColumn(col, dt, rows, is_movie_mode, stream, cooldown) ==
    LET moved == [i \in 1..Len(col.streams) |-> Moved(col.streams[i], dt)]
        kept == SelectSeq(moved, LAMBDA st : Retained(st, rows))
        spawned == Spawned(kept, col.spawn_cooldown, MaxStreams(is_movie_mode),
                           stream, cooldown)
    IN  [streams |-> spawned.streams,
         spawn_cooldown |-> spawned.spawn_cooldown,
         char_timers |-> col.char_timers]

\* MatrixRainState::advance (rain.rs 159-241) for one value of dt.
Advance(dt) ==
    /\ rain # NoRain
    /\ \E draws \in [1..rain.cols ->
                        NewStreams(rain.rows, rain.is_movie_mode) \X CooldownDraws] :
          rain' = [rain EXCEPT !.columns =
                      [i \in 1..rain.cols |->
                          AdvanceColumn(rain.columns[i], dt, rain.rows,
                                        rain.is_movie_mode,
                                        draws[i][1], draws[i][2])]]
    /\ cells' = <<>>
    /\ UNCHANGED <<workerVars, capture_cmds, render_cmds, hcVars, appVars, callVars, lockVars, cmdVars, frameVars>>

\* rain.advance(dt) with the time since the previous render
\* (renderer.rs 147-151).
RainAdvance == \E dt \in DtValues : Advance(dt)

\* An advance after some time has passed.
RainTick == \E dt \in DtValues \ {0} : Advance(dt)

\* Intensities are exact fractions <<numerator, denominator>> in lowest
\* terms, the denominator positive.
RECURSIVE Gcd(_, _)
Gcd(a, b) == IF b = 0 THEN a ELSE Gcd(b, a % b)
Abs(a) == IF a < 0 THEN -a ELSE a
Q(n, d) == LET g == Gcd(Abs(n), d) IN <<n \div g, d \div g>>
QLess(a, b) == a[1] * b[2] < b[1] * a[2]
QLeq(a, b) == a[1] * b[2] <= b[1] * a[2]
QMul(a, b) == Q(a[1] * b[1], a[2] * b[2])
QAdd(a, b) == Q(a[1] * b[2] + b[1] * a[2], a[2] * b[2])
QSub(a, b) == Q(a[1] * b[2] - b[1] * a[2], a[2] * b[2])

\* The brightness values of a grid cell, and the curves.
GridValues == {<<0, 1>>, <<1, 4>>, <<1, 2>>, <<1, 1>>}
Curves == {"Linear", "Exponential", "Sigmoid"}

\* BrightnessCurve::apply (config.rs 252-264).  The sigmoid is
\* (s(t) - s(0)) / (s(1) - s(0)) with s(t) = 1 / (1 + exp(-10 (t - 1/2))):
\* exactly 0, 1/2 and 1 at t = 0, 1/2 and 1, and to four places 0.0165,
\* 0.0701 and 0.2189 at t = 1/8, 1/4 and 3/8, mirrored above 1/2.
CurveApply(curve, t) ==
    CASE curve = "Linear" -> t
      [] curve = "Exponential" -> QMul(t, t)
      [] curve = "Sigmoid" ->
            CASE t = <<0, 1>> -> <<0, 1>>
              [] t = <<1, 8>> -> <<165, 10000>>
              [] t = <<1, 4>> -> <<701, 10000>>
              [] t = <<3, 8>> -> <<2189, 10000>>
              [] t = <<1, 2>> -> <<1, 2>>
              [] t = <<5, 8>> -> <<7811, 10000>>
              [] t = <<3, 4>> -> <<9299, 10000>>
              [] t = <<7, 8>> -> <<9835, 10000>>
              [] t = <<1, 1>> -> <<1, 1>>

\* A ghost trail whose first row already shows one step of the decay.
GhostIntensityDecayed(dist, trail_length, ghost_length) ==
    LET left == ghost_length - (dist - trail_length) - 1
    IN  Q(18 * left * left, 100 * ghost_length * ghost_length)

\* 0.18 * (1 - ghost_t)^2, ghost_t = (dist - trail_length) / ghost_length
\* (rain.rs 297-301).
GhostIntensity(dist, trail_length, ghost_length) ==
    LET one_minus_t == QSub(<<1, 1>>, Q(dist - trail_length, ghost_length))
    IN  QMul(<<18, 100>>, QMul(one_minus_t, one_minus_t))

\* (1 - t)^2, t = distance / trail_length (rain.rs 291-293).
ActiveIntensity(dist, trail_length) ==
    LET one_minus_t == QSub(<<1, 1>>, Q(dist, trail_length))
    IN  QMul(one_minus_t, one_minus_t)

\* What one stream contributes to a row (rain.rs 277-303): its intensity, or
\* nothing (`continue`).
StreamIntensity(stream, row) ==
    LET distance == HeadRow(stream.position) - row IN
    IF stream.trail_length = 0 \/ distance < 0
    THEN [hit |-> FALSE, intensity |-> <<0, 1>>]
    ELSE IF distance < stream.trail_length
    THEN [hit |-> TRUE,
          intensity |-> ActiveIntensity(distance, stream.trail_length)]
    ELSE IF stream.ghost_length > 0
            /\ distance < stream.trail_length + stream.ghost_length
    THEN [hit |-> TRUE,
          intensity |-> GhostIntensity(distance, stream.trail_length,
                                       stream.ghost_length)]
    ELSE [hit |-> FALSE, intensity |-> <<0, 1>>]

\* Colours are kept as the share of the foreground colour in the blend with
\* HEAD_COLOR, in thirds: 0 is HEAD_COLOR, FgColor the foreground colour.
FgColor == 3

\* The head colour blending (rain.rs 310-324): HEAD_COLOR at the head, the
\* foreground colour from the third row behind it on.
StreamColor(stream, row) ==
    LET distance == HeadRow(stream.position) - row IN
    IF distance <= 0 THEN 0
    ELSE IF distance <= 3 THEN distance
    ELSE FgColor

\* A loop in which every stream that covers the row replaces the one found
\* before it.
RECURSIVE BestIntensityLastCovering(_, _, _)
BestIntensityLastCovering(streams, row, best) ==
    IF streams = <<>> THEN best
    ELSE LET c == StreamIntensity(Head(streams), row) IN
         BestIntensityLastCovering(Tail(streams), row,
                       IF c.hit
                       THEN [is_rain |-> TRUE, intensity |-> c.intensity,
                             color |-> StreamColor(Head(streams), row)]
                       ELSE best)

\* The loop over the column's streams (rain.rs 272-327): the largest
\* intensity wins, and brings its colour.
RECURSIVE BestIntensity(_, _, _)
BestIntensity(streams, row, best) ==
    IF streams = <<>> THEN best
    ELSE LET c == StreamIntensity(Head(streams), row) IN
         BestIntensity(Tail(streams), row,
                       IF c.hit /\ QLess(best.intensity, c.intensity)
                       THEN [is_rain |-> TRUE, intensity |-> c.intensity,
                             color |-> StreamColor(Head(streams), row)]
                       ELSE best)

\* A rain cell that is lit by the webcam brightness on top of the full
\* stream intensity.
RainBrightnessAdded(best_intensity, wb) ==
    QAdd(best_intensity, QMul(<<65, 100>>, wb))

\* best_intensity * (0.35 + 0.65 * wb) (rain.rs 331).
RainBrightness(best_intensity, wb) ==
    QMul(best_intensity, QAdd(<<35, 100>>, QMul(<<65, 100>>, wb)))

\* wb: the curve applied to the grid brightness, inverted on request
\* (rain.rs 264-267).
WebcamBrightness(value, curve, invert) ==
    LET applied == CurveApply(curve, value)
    IN  IF invert THEN QSub(<<1, 1>>, applied) ELSE applied

\* The cells one (row, col) pushes (rain.rs 258-376): one in every branch.
CellsAt(r, row, col, value, curve, invert) ==
    LET wb == WebcamBrightness(value, curve, invert)
        best == BestIntensity(r.columns[col + 1].streams, row,
                              [is_rain |-> FALSE, intensity |-> <<0, 1>>,
                               color |-> FgColor])
    IN  IF best.is_rain
        THEN <<[kind |-> "rain", color |-> best.color,
                intensity |-> RainBrightness(best.intensity, wb)]>>
        ELSE IF r.is_movie_mode
        THEN <<[kind |-> "background", color |-> FgColor,
                intensity |-> QAdd(<<6, 100>>, QMul(wb, <<55, 100>>))]>>
        ELSE <<[kind |-> "classic", color |-> FgColor,
                intensity |-> QMul(wb, <<55, 100>>)]>>

\* compute_cells (rain.rs 244-381) on a grid that holds value in every
\* cell: rows outermost, columns innermost.
RECURSIVE ComputeCells(_, _, _, _, _)
ComputeCells(r, idx, value, curve, invert) ==
    IF idx >= r.rows * r.cols THEN <<>>
    ELSE CellsAt(r, idx \div r.cols, idx % r.cols, value, curve, invert)
            \o ComputeCells(r, idx + 1, value, curve, invert)

\* The renderer asks for the cells of the frame (renderer.rs 155-162).
RainComputeCells ==
    /\ rain # NoRain
    /\ cells = <<>>
    /\ \E value \in GridValues, curve \in Curves, invert \in BOOLEAN :
        cells' = ComputeCells(rain, 0, value, curve, invert)
    /\ UNCHANGED <<workerVars, capture_cmds, render_cmds, hcVars, appVars, rain,
                   callVars, lockVars, cmdVars, frameVars>>

\* ------------------------------------ renderer and glyph cache (renderer.rs)

\* The renderers render is called on: (output_width, output_height) in
\* pixels and the background colour.
RenderSizes == {<<2, 1>>, <<1, 2>>, <<2, 2>>}
Backgrounds == {<<0, 0, 0>>, <<10, 20, 30>>}
Foreground == <<0, 255, 0>>
\* (frame_width, frame_height) the caller passes.
FrameSizes == {<<0, 0>>, <<1, 1>>, <<2, 1>>, <<2, 2>>}

\* The byte lengths of rgb_frame tried for a frame size: empty, one byte
\* short, exact, one byte more.
BufferLengths(frame_width, frame_height) ==
    LET expected == frame_width * frame_height * 3
    IN  {0, expected, expected + 1} \cup (IF expected > 0 THEN {expected - 1} ELSE {})

\* vec![0u8; out_w * out_h * 3] filled with the background colour
\* (renderer.rs 119-128).
FillBackground(out_w, out_h, bg) ==
    [i \in 1..(out_w * out_h * 3) |-> bg[((i - 1) % 3) + 1]]

\* A renderer that takes every frame for a full one.
ShortFrameUnchecked(buf_len, frame_width, frame_height) == FALSE

\* rgb_frame.len() < expected (renderer.rs 131-132).
ShortFrame(buf_len, frame_width, frame_height) ==
    buf_len < frame_width * frame_height * 3

\* The glyphs drawn over the background: the pixels in ink take a colour
\* of the glyph (composite_glyphs, renderer.rs 302-350).
Composite(output, ink, fg) ==
    [i \in 1..Len(output) |->
        IF ((i - 1) \div 3) + 1 \in ink THEN fg[((i - 1) % 3) + 1] ELSE output[i]]

\* AsciiRenderer::render (renderer.rs 118-200): the buffer returned, the
\* number of leading bytes of rgb_frame that were read (rgb_to_grayscale
\* reads width * height * 3 of them, renderer.rs 706-720), and whether an
\* index past the end of rgb_frame made the call panic.
RenderCall(out_w, out_h, bg, buf_len, frame_width, frame_height, ink) ==
    LET output == FillBackground(out_w, out_h, bg)
        expected == frame_width * frame_height * 3
    IN  IF ShortFrame(buf_len, frame_width, frame_height)
        THEN [output |-> output, read |-> 0, panicked |-> FALSE]
        ELSE IF expected > buf_len
        THEN [output |-> <<>>, read |-> buf_len + 1, panicked |-> TRUE]
        ELSE [output |-> Composite(output, ink, Foreground),
              read |-> expected, panicked |-> FALSE]

\* The render thread (or a test) calls render on a frame.
RenderFrameCall ==
    /\ \E size \in RenderSizes, bg \in Backgrounds, frame \in FrameSizes :
       \E buf_len \in BufferLengths(frame[1], frame[2]),
          ink \in {{}, {1}, 1..(size[1] * size[2])} :
            render_out' =
                [output_width |-> size[1], output_height |-> size[2], bg |-> bg,
                 buf_len |-> buf_len,
                 frame_width |-> frame[1], frame_height |-> frame[2],
                 result |-> RenderCall(size[1], size[2], bg, buf_len,
                                       frame[1], frame[2], ink)]
    /\ UNCHANGED <<workerVars, capture_cmds, render_cmds, hcVars, appVars,
                   rainVars, char_map, bitmap, lockVars, cmdVars, frameVars>>

\* Brightness values of a grid cell, in eighths.
BrightnessValues == {Q(k, 8) : k \in 0..8}
\* charset.len() of the renderer.
CharsetLens == {1, 2, 3, 10}
\* Cells of the grid handed to map_to_characters.
GridCells == 2

\* f32::round of a non-negative value: half away from zero.
Round(q) == (2 * q[1] + q[2]) \div (2 * q[2])

\* A mapping that scales by the length and wraps the index around.
CharIndexWrapped(n, curve, invert, brightness) ==
    LET applied == CurveApply(curve, brightness)
        t == IF invert THEN QSub(<<1, 1>>, applied) ELSE applied
    IN  Round(QMul(t, <<n, 1>>)) % n

\* The index into the character set chosen for a brightness
\* (renderer.rs 291-297).
CharIndex(n, curve, invert, brightness) ==
    LET applied == CurveApply(curve, brightness)
        t == IF invert THEN QSub(<<1, 1>>, applied) ELSE applied
    IN  Min(Round(QMul(t, <<n - 1, 1>>)), n - 1)

\* The inputs of map_to_characters: the renderer's character set, curve
\* and invert flag (renderer.rs 97-103; the themes' character sets are not
\* empty) and a grid of brightness values.
CharMapInputs ==
    { [n |-> n, curve |-> curve, invert |-> invert, grid |-> grid,
       chars |-> <<>>]
      : n \in CharsetLens, curve \in Curves, invert \in BOOLEAN,
        grid \in [1..GridCells -> BrightnessValues] }

\* AsciiRenderer::map_to_characters on the grid (renderer.rs 284-300).
MapToCharacters ==
    /\ char_map # <<>>
    /\ char_map.chars = <<>>
    /\ char_map' = [char_map EXCEPT
                        !.chars = [i \in 1..GridCells |->
                                      CharIndex(char_map.n, char_map.curve,
                                                char_map.invert,
                                                char_map.grid[i])]]
    /\ UNCHANGED <<workerVars, capture_cmds, render_cmds, hcVars, appVars,
                   rainVars, render_out, bitmap, lockVars, cmdVars, frameVars>>

\* ------------------------------- rain compositing (renderer.rs 379-520)

\* What a pixel of the rain path is composited from: the intensity of the
\* cell, one channel of its colour and of the output so far, and the
\* coverage of the glyph and of its glow variant at the pixel.
CellIntensities == {<<0, 1>>, <<1, 200>>, <<1, 5>>, <<1, 2>>, <<3, 4>>, <<1, 1>>}
ChannelValues == {0, 1, 128, 255}
Coverages == {0, 1, 128, 255}

\* `as u16` of a non-negative or negative f32: truncated, and saturating.
AsU16(q) ==
    IF q[1] < 0 THEN 0
    ELSE IF q[1] \div q[2] > 65535 THEN 65535
    ELSE q[1] \div q[2]

\* u16 arithmetic as the release build does it.
WrapU16(x) == x % 65536

\* (cell.color.r as f32 * cell.intensity) as u16 (renderer.rs 409-411).
EffectiveColor(color, intensity) == AsU16(QMul(<<color, 1>>, intensity))

\* ((intensity - 0.2) / 0.8).min(1.0), squared (renderer.rs 420-421).
GlowBlend(intensity) ==
    LET t == QMul(QSub(intensity, <<1, 5>>), <<5, 4>>)
        b == IF QLess(<<1, 1>>, t) THEN <<1, 1>> ELSE t
    IN  QMul(b, b)

\* An alpha that adds the glow coverage to the base coverage.
GlowAlphaAdded(base_a, glow_a, intensity) ==
    AsU16(QAdd(<<base_a, 1>>, QMul(<<glow_a, 1>>, GlowBlend(intensity))))

\* (base_a + (glow_a - base_a) * glow_blend) as u16 (renderer.rs 457-458).
GlowAlpha(base_a, glow_a, intensity) ==
    AsU16(QAdd(<<base_a, 1>>,
               QMul(<<glow_a - base_a, 1>>, GlowBlend(intensity))))

\* ((eff * alpha + output[idx] as u16 * inv_a) / 255) as u8, inv_a =
\* 255 - alpha (renderer.rs 464-468, 507-509).
BlendChannel(eff, alpha, out) ==
    LET inv_a == WrapU16(255 - alpha)
        sum == WrapU16(WrapU16(eff * alpha) + WrapU16(out * inv_a))
    IN  (sum \div 255) % 256

\* One channel of one pixel under a glyph of the cell (renderer.rs 393-515):
\* a faint cell and a pixel of no coverage leave the output as it is.
CompositePixel(intensity, color, base_a, glow_a, has_glow, out) ==
    LET eff == EffectiveColor(color, intensity)
        alpha == IF has_glow /\ QLess(<<1, 5>>, intensity)
                 THEN GlowAlpha(base_a, glow_a, intensity)
                 ELSE base_a
        drawn == ~QLess(intensity, <<1, 200>>) /\ alpha # 0
    IN  [intensity |-> intensity, color |-> color, base_a |-> base_a,
         glow_a |-> glow_a, has_glow |-> has_glow, out |-> out,
         eff |-> eff, alpha |-> alpha, drawn |-> drawn,
         result |-> IF drawn THEN BlendChannel(eff, alpha, out) ELSE out]

\* composite_rain_glyphs reaches a pixel.
CompositeRainGlyphs ==
    /\ render_out = <<>>
    /\ \E intensity \in CellIntensities, color \in ChannelValues,
          base_a \in Coverages, glow_a \in Coverages, has_glow \in BOOLEAN,
          out \in ChannelValues :
            render_out' = CompositePixel(intensity, color, base_a, glow_a,
                                         has_glow, out)
    /\ UNCHANGED <<workerVars, capture_cmds, render_cmds, hcVars, appVars,
                   rainVars, char_map, bitmap, lockVars, cmdVars, frameVars>>

\* ------------------------------------------------ glyph_cache.rs bitmaps

\* (width, height) of a rasterised glyph and the coverage values.
BitmapSizes == {<<0, 0>>, <<1, 1>>, <<2, 1>>, <<3, 1>>, <<1, 2>>, <<2, 2>>, <<3, 2>>}
CoverageValues == {0, 255}

\* A flip that moves every pixel one place along its row.
MirrorBitmapShifted(coverage, width, height) ==
    [i \in 1..Len(coverage) |->
        IF i - 1 < width * height
        THEN LET y == (i - 1) \div width
                 x == (i - 1) % width
             IN  coverage[y * width + ((x + 1) % width) + 1]
        ELSE 0]

\* mirror_bitmap (glyph_cache.rs 40-48): mirrored[y*w + (w-1-x)] =
\* coverage[y*w + x] for every x < w, y < h; the rest of the buffer stays 0.
mirror_bitmap(coverage, width, height) ==
    [i \in 1..Len(coverage) |->
        IF i - 1 < width * height
        THEN LET y == (i - 1) \div width
                 x == (i - 1) % width
             IN  coverage[y * width + (width - 1 - x) + 1]
        ELSE 0]

\* fontdue rasterises a glyph: width * height coverage bytes
\* (glyph_cache.rs 150-166).
GlyphRasterize ==
    /\ \E size \in BitmapSizes :
       \E coverage \in [1..(size[1] * size[2]) -> CoverageValues] :
            bitmap' = [width |-> size[1], height |-> size[2],
                       source |-> coverage, coverage |-> coverage, flips |-> 0]
    /\ UNCHANGED <<workerVars, capture_cmds, render_cmds, hcVars, appVars,
                   rainVars, render_out, char_map, lockVars, cmdVars, frameVars>>

\* A bitmap that is not empty is flipped (glyph_cache.rs 165-166), up to
\* twice in a row.
MirrorGlyph ==
    /\ bitmap # <<>>
    /\ bitmap.width > 0 /\ bitmap.height > 0
    /\ bitmap.flips < 2
    /\ bitmap' = [bitmap EXCEPT
                    !.coverage = mirror_bitmap(bitmap.coverage, bitmap.width,
                                               bitmap.height),
                    !.flips = @ + 1]
    /\ UNCHANGED <<workerVars, capture_cmds, render_cmds, hcVars, appVars,
                   rainVars, render_out, char_map, lockVars, cmdVars, frameVars>>

\* ------------------------------------- the lock around the sink slot

\* Everything outside the Pipeline value, its threads and the sink lock.
outerVars == <<hcVars, appVars, rainVars, callVars, cmdVars, frameVars>>

\* recv_timeout returned a frame: it is rendered and offered to the
\* rendered-preview tap (pipeline.rs 322-334).
RenderTakeFrame ==
    /\ ren_pc = "drain"
    /\ render_cmds = <<>>
    /\ capture_q # <<>>
    /\ LET rendered == Render(renderer, Head(capture_q)) IN
        /\ gui_rendered' = TrySend(gui_rendered, PreviewCap, rendered)
        /\ rendered_frame' = rendered
    /\ capture_q' = Tail(capture_q)
    /\ ren_pc' = "sink"
    /\ UNCHANGED <<outerVars, shutdown, capVars, capture_cmds, renderer,
                   render_reply, render_cmds, gui_raw, outVars, sink_lock>>

\* render_output_tx.lock() (pipeline.rs 340): waits while the lock is held.
RenderLockSink ==
    /\ ren_pc = "sink"
    /\ sink_lock = "free"
    /\ sink_lock' = "render"
    /\ ren_pc' = "sink_locked"
    /\ UNCHANGED <<outerVars, shutdown, capVars, capture_q, capture_cmds,
                   renderer, render_reply, render_cmds, gui_raw, gui_rendered,
                   outVars, rendered_frame>>

\* The try_send under the guard and the end of the guard's block
\* (pipeline.rs 341-344).
RenderSinkSend ==
    /\ ren_pc = "sink_locked"
    /\ out_q' = SinkSend(rendered_frame)
    /\ sink_lock' = "free"
    /\ rendered_frame' = <<>>
    /\ ren_pc' = AfterSinkSend
    /\ shutdown' = (shutdown \/ AfterSinkSend = "done")
    /\ UNCHANGED <<outerVars, capVars, capture_q, capture_cmds, renderer,
                   render_reply, render_cmds, gui_raw, gui_rendered,
                   render_to_output_tx, out_pc, output_handle, output_shutdown,
                   out_flag, sink, ctl_pc, start_result>>

\* start_output with a handle already held returns Err (pipeline.rs 429-431).
StartOutputRefused ==
    /\ ctl_pc = "idle"
    /\ output_handle
    /\ start_result' = "Err"
    /\ UNCHANGED <<outerVars, lockVars, shutdown, capVars, capture_q,
                   capture_cmds, renVars, render_cmds, gui_raw, gui_rendered,
                   render_to_output_tx, out_q, out_pc, output_handle,
                   output_shutdown, out_flag, sink, ctl_pc>>

\* start_output takes the lock (pipeline.rs 435-440).
StartOutputLock ==
    /\ ctl_pc = "idle"
    /\ ~output_handle
    /\ sink_lock = "free"
    /\ sink_lock' = "owner"
    /\ ctl_pc' = "start_locked"
    /\ UNCHANGED <<outerVars, rendered_frame, shutdown, capVars, capture_q,
                   capture_cmds, renVars, render_cmds, gui_raw, gui_rendered,
                   render_to_output_tx, out_q, out_pc, output_handle,
                   output_shutdown, out_flag, sink, start_result>>

\* *guard = Some(tx), the end of the guard's block, and the spawn of the
\* output thread (pipeline.rs 441-481).
StartOutputStore ==
    /\ ctl_pc = "start_locked"
    /\ render_to_output_tx' = TRUE
    /\ out_q' = <<>>
    /\ sink_lock' = "free"
    /\ out_flag' = FALSE
    /\ out_pc' = "check"
    /\ output_handle' = TRUE
    /\ output_shutdown' = TRUE
    /\ sink' = "fresh"
    /\ start_result' = "Ok"
    /\ ctl_pc' = "idle"
    /\ UNCHANGED <<outerVars, rendered_frame, shutdown, capVars, capture_q,
                   capture_cmds, renVars, render_cmds, gui_raw, gui_rendered>>

\* stop_output takes the lock (pipeline.rs 487-491).
StopOutputLock ==
    /\ ctl_pc = "idle"
    /\ sink_lock = "free"
    /\ sink_lock' = "owner"
    /\ ctl_pc' = "stop_locked"
    /\ UNCHANGED <<outerVars, rendered_frame, shutdown, capVars, capture_q,
                   capture_cmds, renVars, render_cmds, gui_raw, gui_rendered,
                   render_to_output_tx, out_q, out_pc, output_handle,
                   output_shutdown, out_flag, sink, start_result>>

\* A stop_output whose guard lives until the function returns.
SinkLockHeldAcrossJoin == "owner"

\* The lock after the block around `*guard = None` (pipeline.rs 487-493).
SinkLockAfterStop == "free"

\* *guard = None, the end of the guard's block, the store to the output
\* thread's flag, and the take of the handle (pipeline.rs 492-501).
StopOutputStore ==
    /\ ctl_pc = "stop_locked"
    /\ render_to_output_tx' = FALSE
    /\ sink_lock' = SinkLockAfterStop
    /\ out_flag' = IF output_shutdown THEN TRUE ELSE out_flag
    /\ IF output_handle
       THEN /\ ctl_pc' = "stop_join"
            /\ UNCHANGED output_shutdown
       ELSE /\ output_shutdown' = FALSE
            /\ ctl_pc' = "idle"
    /\ UNCHANGED <<outerVars, rendered_frame, shutdown, capVars, capture_q,
                   capture_cmds, renVars, render_cmds, gui_raw, gui_rendered,
                   out_q, out_pc, output_handle, sink, start_result>>

\* ----------------------------- the render thread's bounded wait for a frame

\* while let Ok(cmd) = render_cmd_rx.try_recv() found the queue empty: the
\* thread goes on to recv_timeout (pipeline.rs 280, 322).
RenderDrained ==
    /\ ren_pc = "drain"
    /\ render_cmds = <<>>
    /\ ren_pc' = "recv"
    /\ UNCHANGED <<extVars, shutdown, capVars, capture_q, capture_cmds, renderer,
                   render_reply, render_cmds, gui_raw, gui_rendered, outVars>>

\* recv_timeout returned a frame while the thread was waiting
\* (pipeline.rs 322-346).
RenderRecvFrame ==
    /\ ren_pc = "recv"
    /\ capture_q # <<>>
    /\ LET rendered == Render(renderer, Head(capture_q)) IN
        /\ gui_rendered' = TrySend(gui_rendered, PreviewCap, rendered)
        /\ out_q' = SinkSend(rendered)
    /\ capture_q' = Tail(capture_q)
    /\ ren_pc' = AfterSinkSend
    /\ shutdown' = (shutdown \/ AfterSinkSend = "done")
    /\ UNCHANGED <<extVars, capVars, capture_cmds, renderer, render_reply,
                   render_cmds, gui_raw, render_to_output_tx, out_pc,
                   output_handle, output_shutdown, out_flag, sink,
                   ctl_pc, start_result>>

\* A receive without a timeout: the thread stays in it until a frame comes.
AfterRecvTimeoutWaits == "recv"

\* Err(Timeout) => continue (pipeline.rs 347): back to the head of the loop.
AfterRecvTimeout == "check"

\* The 100 ms of recv_timeout have passed without a frame (pipeline.rs 271,
\* 322, 347).
RenderRecvTimeout ==
    /\ ren_pc = "recv"
    /\ capture_q = <<>>
    /\ cap_pc # "done"
    /\ ren_pc' = AfterRecvTimeout
    /\ UNCHANGED <<extVars, shutdown, capVars, capture_q, capture_cmds, renderer,
                   render_reply, render_cmds, gui_raw, gui_rendered, outVars>>

\* The wait found the channel empty and disconnected (pipeline.rs 348-352).
RenderRecvDisconnected ==
    /\ ren_pc = "recv"
    /\ capture_q = <<>>
    /\ cap_pc = "done"
    /\ shutdown' = TRUE
    /\ ren_pc' = "done"
    /\ UNCHANGED <<extVars, capVars, capture_q, capture_cmds, renderer, render_reply,
                   render_cmds, gui_raw, gui_rendered, outVars>>

\* The render thread with the command drain and the wait as separate steps.
RenderWaitStep ==
    \/ RenderCheck \/ RenderRebuild \/ RenderDrained
    \/ RenderRecvFrame \/ RenderRecvTimeout \/ RenderRecvDisconnected

\* ------------------------------------- commands and their reply channels

innerVars == <<hcVars, appVars, rainVars, callVars, lockVars, frameVars>>

\* let _ = cmd.response_tx.send(..): what a handler's path puts on the
\* command's reply channel (pipeline.rs 123, 143, 150, 175, 182, 186, 308,
\* 315).
ResponseSentUnlessFatal(o) == IF o.fatal THEN <<>> ELSE <<o.reply>>

ResponseSent(o) == <<o.reply>>

\* The commands the owner queues here: a camera change and a rate change.
QueuedCaptureActions == {ChangeCamera(1, <<640, 480>>), ChangeFps(15)}

\* The owner queues a capture command behind those already waiting
\* (gui/app.rs 135-148; control.rs 430, 470).  In one behaviour the owner reconfigures
\* one of the two workers.
QueueCaptureCommand ==
    /\ render_cmds = <<>> /\ ren_cmd = <<>>
    /\ Len(capture_cmds) < Min(MaxQueued, CommandQueueCap)
    /\ \E a \in QueuedCaptureActions : capture_cmds' = Append(capture_cmds, a)
    /\ UNCHANGED <<extVars, shutdown, capVars, capture_q, renVars, render_cmds,
                   gui_raw, gui_rendered, outVars>>

\* The owner queues a render command behind those already waiting
\* (control.rs 500-513).
QueueRenderCommand ==
    /\ capture_cmds = <<>> /\ cap_cmd = <<>>
    /\ Len(render_cmds) < Min(MaxQueued, CommandQueueCap)
    /\ \E a \in RenderActions : render_cmds' = Append(render_cmds, a)
    /\ UNCHANGED <<extVars, shutdown, capVars, capture_q, capture_cmds, renVars,
                   gui_raw, gui_rendered, outVars>>

\* The control listener takes connections while the shutdown flag is not
\* set (control.rs 175); a connection sends capture commands (control.rs
\* 430, 470).
ListenerSendCapture ==
    /\ ~shutdown
    /\ Len(capture_cmds) < Min(MaxPending, CommandQueueCap)
    /\ \E a \in QueuedCaptureActions : capture_cmds' = Append(capture_cmds, a)
    /\ UNCHANGED <<extVars, shutdown, capVars, capture_q, renVars, render_cmds,
                   gui_raw, gui_rendered, outVars>>

\* while let Ok(cmd) = capture_cmd_rx.try_recv() (pipeline.rs 94): the
\* oldest queued command is now the thread's, its reply channel with it.
CaptureTryRecv ==
    /\ cap_pc = "drain"
    /\ capture_cmds # <<>>
    /\ cap_cmd' = [cmd |-> Head(capture_cmds), replies |-> <<>>]
    /\ capture_cmds' = Tail(capture_cmds)
    /\ cap_pc' = "handle"
    /\ UNCHANGED <<innerVars, ren_cmd, shutdown, camera, cur_index,
                   cur_resolution, cur_fps, frame_interval, dims,
                   consecutive_errors, backoff_i, capture_reply, capture_q,
                   renVars, render_cmds, gui_raw, gui_rendered, outVars>>

\* The ChangeCamera arm with its send (pipeline.rs 96-160).
CaptureHandleChangeCamera ==
    /\ cap_pc = "handle"
    /\ cap_cmd.cmd.type = "ChangeCamera"
    /\ \E new_ok \in BOOLEAN, rollback_ok \in BOOLEAN :
        LET o == ChangeCameraOutcome(cap_cmd.cmd, new_ok, rollback_ok) IN
        /\ camera' = o.camera
        /\ dims' = o.dims
        /\ cur_index' = o.cur_index
        /\ cur_resolution' = o.cur_resolution
        /\ consecutive_errors' = o.consecutive_errors
        /\ capture_reply' = o.reply
        /\ cap_cmd' = [cap_cmd EXCEPT !.replies = @ \o ResponseSent(o)]
        /\ shutdown' = (shutdown \/ o.fatal)
        /\ cap_pc' = IF o.fatal THEN "done" ELSE "drain"
    /\ UNCHANGED <<innerVars, ren_cmd, cur_fps, frame_interval, backoff_i,
                   capture_q, capture_cmds, renVars, render_cmds, gui_raw,
                   gui_rendered, outVars>>

\* The ChangeFps arm with its send (pipeline.rs 161-193).
CaptureHandleChangeFps ==
    /\ cap_pc = "handle"
    /\ cap_cmd.cmd.type = "ChangeFps"
    /\ \E new_ok \in BOOLEAN, rollback_ok \in BOOLEAN :
        LET o == ChangeFpsOutcome(cap_cmd.cmd, new_ok, rollback_ok) IN
        /\ camera' = o.camera
        /\ dims' = o.dims
        /\ cur_fps' = o.cur_fps
        /\ frame_interval' = o.frame_interval
        /\ capture_reply' = o.reply
        /\ cap_cmd' = [cap_cmd EXCEPT !.replies = @ \o ResponseSent(o)]
        /\ shutdown' = (shutdown \/ o.fatal)
        /\ cap_pc' = IF o.fatal THEN "done" ELSE "drain"
    /\ UNCHANGED <<innerVars, ren_cmd, cur_index, cur_resolution,
                   consecutive_errors, backoff_i, capture_q, capture_cmds,
                   renVars, render_cmds, gui_raw, gui_rendered, outVars>>

\* while let Ok(cmd) = render_cmd_rx.try_recv() (pipeline.rs 280).
RenderTryRecv ==
    /\ ren_pc = "drain"
    /\ render_cmds # <<>>
    /\ ren_cmd' = [cmd |-> Head(render_cmds), replies |-> <<>>]
    /\ render_cmds' = Tail(render_cmds)
    /\ ren_pc' = "handle"
    /\ UNCHANGED <<innerVars, cap_cmd, shutdown, capVars, capture_q,
                   capture_cmds, renderer, render_reply, gui_raw,
                   gui_rendered, outVars>>

\* The Rebuild arm with its send (pipeline.rs 282-318).
RenderHandleRebuild ==
    /\ ren_pc = "handle"
    /\ \E glyph \in GlyphOutcomes :
        LET out_w == RebuildOutputSize(renderer)[1]
            out_h == RebuildOutputSize(renderer)[2]
            built == AsciiRendererNew(glyph, out_w, out_h,
                                      ren_cmd.cmd.ascii_columns)
            o == [reply |-> IF built.ok THEN "Ok" ELSE "Err", fatal |-> FALSE]
        IN  /\ renderer' = RendererAfterRebuild(renderer, built)
            /\ render_reply' = o.reply
            /\ ren_cmd' = [ren_cmd EXCEPT !.replies = @ \o ResponseSent(o)]
    /\ ren_pc' = "drain"
    /\ UNCHANGED <<innerVars, cap_cmd, shutdown, capVars, capture_q,
                   capture_cmds, render_cmds, gui_raw, gui_rendered, outVars>>

\* ------------------------------------------ frames followed to the sink

plainVars == <<hcVars, appVars, rainVars, callVars, lockVars, cmdVars>>

\* A receive that hands over the newest queued message.
ReceivedNewest(q) == q[Len(q)]

\* recv_timeout returns the oldest queued message (pipeline.rs 322, 384).
Received(q) == Head(q)

\* camera.capture_frame() returned Ok and the frame is handed to the render
\* thread (pipeline.rs 197-226); no preview taps (the CLI passes None).
CaptureNumbered ==
    /\ cap_pc = "drain"
    /\ capture_cmds = <<>>
    /\ captured < MaxFrames
    /\ captured' = captured + 1
    /\ consecutive_errors' = 0
    /\ IF ren_pc = "done"
       THEN /\ shutdown' = TRUE
            /\ cap_pc' = "done"
            /\ UNCHANGED capture_q
       ELSE /\ capture_q' = TrySend(capture_q, CaptureQueueCap,
                                    [width |-> Frame.width,
                                     height |-> Frame.height,
                                     id |-> captured + 1])
            /\ cap_pc' = "pace"
            /\ UNCHANGED shutdown
    /\ UNCHANGED <<plainVars, written, camera, cur_index, cur_resolution,
                   cur_fps, frame_interval, dims, backoff_i, capture_reply,
                   capture_cmds, renVars, render_cmds, gui_raw, gui_rendered,
                   outVars>>

\* recv_timeout returned a frame; it is rendered and offered to the sink
\* (pipeline.rs 322-346).
RenderNumbered ==
    /\ ren_pc = "drain"
    /\ render_cmds = <<>>
    /\ capture_q # <<>>
    /\ LET frame == Received(capture_q)
           r == Render(renderer, frame)
           rendered == [len |-> r.len, ascii_cols |-> r.ascii_cols,
                        ascii_rows |-> r.ascii_rows, id |-> frame.id]
       IN  out_q' = SinkSend(rendered)
    /\ capture_q' = Tail(capture_q)
    /\ ren_pc' = AfterSinkSend
    /\ shutdown' = (shutdown \/ AfterSinkSend = "done")
    /\ UNCHANGED <<plainVars, frameVars, capVars, capture_cmds, renderer,
                   render_reply, render_cmds, gui_raw, gui_rendered,
                   render_to_output_tx, out_pc, output_handle,
                   output_shutdown, out_flag, sink, ctl_pc, start_result>>

\* recv_timeout returned a rendered frame; write_frame succeeds or fails
\* (pipeline.rs 384-394, 460-470).
OutputWriteNumbered ==
    /\ out_pc = "recv"
    /\ out_q # <<>>
    /\ \E ok \in BOOLEAN :
        LET o == WriteOutcome(ok) IN
        /\ sink' = o.sink
        /\ shutdown' = o.shutdown
        /\ out_pc' = o.next
        /\ out_q' = IF o.next = "done" THEN <<>> ELSE Tail(out_q)
        /\ written' = IF ok THEN Append(written, Received(out_q).id)
                      ELSE written
    /\ UNCHANGED <<plainVars, captured, capVars, capture_q, capture_cmds,
                   renVars, render_cmds, gui_raw, gui_rendered,
                   render_to_output_tx, output_handle, output_shutdown,
                   out_flag, ctl_pc, start_result>>

\* The owner asks for one rebuild and sends no other before its reply
\* (gui/app.rs 150-171).
SendRebuildOnce ==
    /\ render_reply = "none"
    /\ render_cmds = <<>>
    /\ \E a \in RenderActions : render_cmds' = <<a>>
    /\ UNCHANGED <<extVars, shutdown, capVars, capture_q, capture_cmds, renVars,
                   gui_raw, gui_rendered, outVars>>

\* ------------------------------------------------------- specifications

Next ==
    \/ CaptureOpen \/ CaptureCheck \/ CaptureChangeCamera \/ CaptureChangeFps
    \/ CaptureFrameOk \/ CaptureFrameErr \/ CapturePace
    \/ ReconnectAttempt \/ ReconnectBackoff
    \/ RenderCheck \/ RenderRebuild \/ RenderFrame
    \/ RenderTimeout \/ RenderDisconnected
    \/ OutputCheck \/ OutputWrite \/ OutputTimeout \/ OutputDisconnected
    \/ StartOutput \/ StopOutputBegin \/ StopOutputJoin
    \/ SendCaptureCommand \/ SendRenderCommand \/ RequestShutdown
    \/ PollPreview

Spec == Init /\ [][Next]_vars

\* The full system is checked in slices: each specification below runs the
\* same worker actions under one part of the environment's behaviour.

\* Camera reconfiguration: a healthy camera, operators issuing capture
\* commands, the render thread consuming frames.
NextCamera ==
    \/ CaptureOpen \/ CaptureCheck \/ CaptureChangeCamera \/ CaptureChangeFps
    \/ CaptureFrameOk \/ CapturePace
    \/ RenderCheck \/ RenderFrame \/ RenderTimeout \/ RenderDisconnected
    \/ SendCaptureCommand \/ RequestShutdown

SpecCamera == Init /\ [][NextCamera]_vars

\* Renderer reconfiguration: a healthy camera, operators issuing render
\* commands.
NextRebuild ==
    \/ CaptureOpen \/ CaptureCheck \/ CaptureFrameOk \/ CapturePace
    \/ RenderCheck \/ RenderRebuild \/ RenderFrame
    \/ RenderTimeout \/ RenderDisconnected
    \/ SendRenderCommand \/ RequestShutdown

SpecRebuild == Init /\ [][NextRebuild]_vars

\* A failing camera: capture errors, the reconnect loop, shutdown requests.
NextReconnect ==
    \/ CaptureOpen \/ CaptureCheck
    \/ CaptureFrameOk \/ CaptureFrameErr \/ CapturePace
    \/ ReconnectAttempt \/ ReconnectBackoff
    \/ RenderCheck \/ RenderFrame \/ RenderTimeout \/ RenderDisconnected
    \/ RequestShutdown

SpecReconnect == Init /\ [][NextReconnect]_vars

\* The publish stage: a healthy camera, the output thread, and the owner of
\* the Pipeline attaching and detaching it while a viewer polls the taps.
NextOutput ==
    \/ CaptureOpen \/ CaptureCheck \/ CaptureFrameOk \/ CapturePace
    \/ RenderCheck \/ RenderFrame \/ RenderTimeout \/ RenderDisconnected
    \/ OutputCheck \/ OutputWrite \/ OutputTimeout \/ OutputDisconnected
    \/ StartOutput \/ StopOutputBegin \/ StopOutputJoin
    \/ RequestShutdown \/ PollPreview

SpecOutput == Init /\ [][NextOutput]_vars

\* Each worker is an OS thread that keeps being scheduled.
FairOutput ==
    /\ SpecOutput
    /\ WF_vars(CaptureStep) /\ WF_vars(RenderStep) /\ WF_vars(OutputStep)

\* All three workers with a failing camera and a failing sink.
NextWorkers ==
    \/ CaptureOpen \/ CaptureCheck
    \/ CaptureFrameOk \/ CaptureFrameErr \/ CapturePace
    \/ ReconnectAttempt \/ ReconnectBackoff
    \/ RenderCheck \/ RenderFrame \/ RenderTimeout \/ RenderDisconnected
    \/ OutputCheck \/ OutputWrite \/ OutputTimeout \/ OutputDisconnected
    \/ StartOutput \/ StopOutputBegin \/ StopOutputJoin
    \/ RequestShutdown

SpecWorkers == Init /\ [][NextWorkers]_vars

FairWorkers ==
    /\ SpecWorkers
    /\ WF_vars(CaptureStep) /\ WF_vars(RenderStep) /\ WF_vars(OutputStep)

\* All three workers with a camera that may fail to open, at start or in a
\* reconfiguration, a sink that may fail, and shutdown requests; commands
\* arrive through the control listener.
NextTogether ==
    \/ CaptureOpen \/ CaptureCheck \/ CaptureChangeCamera \/ CaptureChangeFps
    \/ CaptureFrameOk \/ CapturePace
    \/ RenderCheck \/ RenderFrame \/ RenderTimeout \/ RenderDisconnected
    \/ OutputCheck \/ OutputWrite \/ OutputTimeout
    \/ ListenerSendCapture \/ RequestShutdown

SpecTogether == Init /\ [][NextTogether]_vars

FairTogether ==
    /\ SpecTogether
    /\ WF_vars(CaptureStep) /\ WF_vars(RenderStep) /\ WF_vars(OutputStep)

\* The GUI starts the pipeline without a v4l2 output
\* (gui/pipeline_bridge.rs 66-77).
InitGui == Init /\ ~render_to_output_tx

\* The GUI with a running preview: a healthy camera, the operator switching
\* cameras, the viewer polling the taps.
NextGui ==
    \/ CaptureOpen \/ CaptureCheck \/ CaptureChangeCamera
    \/ CaptureFrameOk \/ CapturePace
    \/ RenderCheck \/ RenderFrame \/ RenderTimeout \/ RenderDisconnected
    \/ GuiChangeCamera \/ PollPreview

SpecGui == InitGui /\ [][NextGui]_vars

\* The GUI stopping the pipeline and starting it again, with the virtual
\* camera attached to whichever pipeline is current.
NextRestart ==
    \/ CaptureOpen \/ CaptureCheck \/ CaptureFrameOk \/ CapturePace
    \/ RenderCheck \/ RenderFrame \/ RenderTimeout \/ RenderDisconnected
    \/ OutputCheck \/ OutputWrite \/ OutputTimeout
    \/ StartOutput
    \/ GuiStopPipeline \/ GuiStartPipeline \/ OldWorkerExit \/ WaitJoin

SpecRestart == InitGui /\ [][NextRestart]_vars

\* Teardown: Ctrl-C in `virtual-ascii run`, whose main thread sits in
\* wait(), and stop_pipeline in the GUI.
NextTeardown ==
    \/ CaptureOpen \/ CaptureCheck \/ CaptureFrameOk \/ CapturePace
    \/ RenderCheck \/ RenderFrame \/ RenderTimeout \/ RenderDisconnected
    \/ OutputCheck \/ OutputWrite \/ OutputTimeout
    \/ RequestShutdown \/ RunWait \/ GuiStopPipeline \/ WaitJoin

SpecTeardown == Init /\ [][NextTeardown]_vars

\* `virtual-ascii run` starts the pipeline with the v4l2 output attached
\* (main.rs 156-169).
InitRun == Init /\ render_to_output_tx

\* Both kinds of reconfiguration with frames flowing to an attached sink.
NextResize ==
    \/ CaptureOpen \/ CaptureCheck \/ CaptureChangeCamera \/ CaptureChangeFps
    \/ CaptureFrameOk \/ CapturePace
    \/ RenderCheck \/ RenderRebuild \/ RenderFrame
    \/ RenderTimeout \/ RenderDisconnected
    \/ ListenerSendCapture \/ SendRenderCommand

SpecResize == InitRun /\ [][NextResize]_vars

\* The control socket of `virtual-ascii run`: one connection at a time, both
\* workers answering every command within the handler's timeout, in the time
\* before the camera delivers its next frame.
NextControl ==
    \/ CaptureOpen \/ CaptureCheck \/ CaptureChangeCamera \/ CaptureChangeFps
    \/ RenderCheck \/ RenderRebuild \/ RenderTimeout
    \/ ClientConnect \/ HandlerRead
    \/ HandlerSendCamera \/ HandlerCameraReply
    \/ HandlerSendFps \/ HandlerFpsReply
    \/ HandlerSendRender \/ HandlerRenderReply
    \/ HandlerClose

SpecControl == InitRun /\ [][NextControl]_vars

\* The control socket while the camera fails: a client that keeps asking for
\* a frame rate, the handler giving up on replies after its timeout, the
\* capture thread in its error and reconnect path.
NextStall ==
    \/ CaptureOpen \/ CaptureCheck \/ CaptureChangeFps
    \/ CaptureFrameOk \/ CaptureFrameErr \/ CapturePace
    \/ ReconnectAttempt \/ ReconnectBackoff
    \/ RenderCheck \/ RenderFrame \/ RenderTimeout \/ RenderDisconnected
    \/ ClientRetryFps \/ HandlerRead
    \/ HandlerSendFps \/ HandlerFpsReply \/ HandlerFpsTimeout
    \/ HandlerClose

SpecStall == InitRun /\ [][NextStall]_vars

\* The rain animation on its own: construction, ticks, cell computation.
NextRain == RainNew \/ RainAdvance \/ RainComputeCells

SpecRain == InitRun /\ [][NextRain]_vars

\* The renderer is made, and time passes between the frames it renders.
FairRain == SpecRain /\ WF_vars(RainNew) /\ WF_vars(RainTick)

\* AsciiRenderer::render on full and truncated frames.
NextRenderCall == RenderFrameCall

SpecRenderCall == InitRun /\ [][NextRenderCall]_vars

\* The rain path compositing pixels.
NextComposite == CompositeRainGlyphs

SpecComposite == InitRun /\ [][NextComposite]_vars

\* map_to_characters over grids of brightness values.
NextCharMap == MapToCharacters

InitCharMap == InitCore /\ render_to_output_tx /\ char_map \in CharMapInputs

SpecCharMap == InitCharMap /\ [][NextCharMap]_vars

\* Glyph bitmaps being rasterised and flipped.
NextMirror == GlyphRasterize \/ MirrorGlyph

SpecMirror == InitRun /\ [][NextMirror]_vars

\* The publish stage with the lock around the sink slot made explicit:
\* the render thread and the owner of the Pipeline take and release it.
NextLock ==
    \/ CaptureOpen \/ CaptureCheck \/ CaptureFrameOk \/ CapturePace
    \/ RenderCheck \/ RenderTakeFrame \/ RenderLockSink \/ RenderSinkSend
    \/ RenderTimeout \/ RenderDisconnected
    \/ OutputCheck \/ OutputWrite \/ OutputTimeout \/ OutputDisconnected
    \/ StartOutputRefused \/ StartOutputLock \/ StartOutputStore
    \/ StopOutputLock \/ StopOutputStore \/ StopOutputJoin
    \/ RequestShutdown

SpecLock == Init /\ [][NextLock]_vars

\* Frames followed from the camera to the sink, with a rebuild and the
\* owner detaching and attaching the output.
NextOrder ==
    \/ CaptureOpen \/ CaptureCheck \/ CaptureNumbered \/ CapturePace
    \/ RenderCheck \/ RenderRebuild \/ RenderNumbered
    \/ RenderTimeout \/ RenderDisconnected
    \/ OutputCheck \/ OutputWriteNumbered \/ OutputTimeout
    \/ OutputDisconnected
    \/ StartOutput \/ StopOutputBegin \/ StopOutputJoin
    \/ SendRebuildOnce

SpecOrder == Init /\ [][NextOrder]_vars

\* Commands and replies: both workers taking commands off their queues and
\* answering them, frames flowing in between.
NextReply ==
    \/ CaptureOpen \/ CaptureCheck \/ CaptureTryRecv
    \/ CaptureHandleChangeCamera \/ CaptureHandleChangeFps
    \/ CaptureFrameOk \/ CapturePace
    \/ RenderCheck \/ RenderTryRecv \/ RenderHandleRebuild \/ RenderFrame
    \/ RenderTimeout \/ RenderDisconnected
    \/ QueueCaptureCommand \/ QueueRenderCommand \/ RequestShutdown

SpecReply == Init /\ [][NextReply]_vars

\* Renderer reconfiguration with the render thread's wait for a frame made
\* a step of its own: commands may arrive while it waits.
NextWait ==
    \/ CaptureOpen \/ CaptureCheck \/ CaptureFrameOk \/ CapturePace
    \/ RenderCheck \/ RenderRebuild \/ RenderDrained
    \/ RenderRecvFrame \/ RenderRecvTimeout \/ RenderRecvDisconnected
    \/ SendRenderCommand \/ RequestShutdown

SpecWait == Init /\ [][NextWait]_vars

\* The render thread keeps being scheduled; the capture thread may stall
\* for ever, so that no frame arrives.
FairWait == SpecWait /\ WF_vars(RenderWaitStep)

\* ================================================================ claims

\* A step in which the capture thread got a frame from the camera and
\* offered it to the render stage.
CaptureProducedFrame ==
    /\ cap_pc = "drain"
    /\ capture_cmds = <<>>
    /\ cap_pc' # "drain"
    /\ consecutive_errors' = 0

\* C1: the capture -> render queue never holds more than 2 frames, and a
\* frame produced while it holds 2 is dropped: the queue keeps its contents
\* and the capture thread goes on to its pacing sleep, without waiting for
\* the render thread and without touching the shutdown flag.
C1_QueueBoundedDropNewest ==
    [][ /\ Len(capture_q') <= CaptureQueueCap
        /\ (CaptureProducedFrame /\ Len(capture_q) = CaptureQueueCap)
              => /\ capture_q' = capture_q
                 /\ cap_pc' = "pace"
                 /\ ren_pc' = ren_pc
                 /\ shutdown' = shutdown ]_vars

\* C1 witness: the capture thread is pacing after a frame that is not the
\* last one queued, with the queue full: that frame was dropped.
C1_Witness ==
    /\ cap_pc = "pace"
    /\ Len(capture_q) = CaptureQueueCap
    /\ capture_q[CaptureQueueCap] # Frame

\* A step in which the render thread dequeued a command.
RenderCommandProcessed == Len(render_cmds') < Len(render_cmds)

\* A renderer, or the grid of a rendered frame, that one complete
\* construction can have produced.
Constructible(cols, rows, len) ==
    \E g \in GlyphOutcomes, c \in Columns :
        LET built == AsciiRendererNew(g, InitialRenderer.output_width,
                                      InitialRenderer.output_height, c)
        IN  /\ built.ok
            /\ built.r.ascii_cols = cols
            /\ built.r.ascii_rows = rows
            /\ built.r.output_width * built.r.output_height * 3 = len

\* C2: a Rebuild command ends with reply Ok and a new renderer built for the
\* requested columns, or with reply Err and exactly the renderer active
\* before; either way the render thread keeps running.  The active renderer,
\* and the grid of every rendered frame, is always that of one complete
\* construction.
C2_RebuildAllOrNothing ==
    [][ /\ RenderCommandProcessed =>
             /\ render_reply' \in {"Ok", "Err"}
             /\ render_reply' = "Err" => renderer' = renderer
             /\ render_reply' = "Ok" =>
                  /\ renderer'.ascii_cols \in 1..Head(render_cmds).ascii_columns
                  /\ renderer'.ascii_rows >= 1
                  /\ renderer'.output_width = renderer.output_width
                  /\ renderer'.output_height = renderer.output_height
             /\ ren_pc' = "drain"
             /\ shutdown' = shutdown
        /\ Constructible(renderer'.ascii_cols, renderer'.ascii_rows,
                         renderer'.output_width * renderer'.output_height * 3)
        /\ \A i \in 1..Len(gui_rendered') :
             Constructible(gui_rendered'[i].ascii_cols,
                           gui_rendered'[i].ascii_rows, gui_rendered'[i].len)
      ]_vars

\* C2 witness: a rebuild has failed after an earlier one succeeded, and the
\* rebuilt renderer is still the active one.
C2_Witness ==
    /\ render_reply = "Err"
    /\ renderer # InitialRenderer
    /\ ren_pc = "drain"

\* A step in which the capture thread dequeued a command of the given type.
CaptureCommandProcessed(type) ==
    /\ capture_cmds # <<>>
    /\ Head(capture_cmds).type = type
    /\ Len(capture_cmds') < Len(capture_cmds)

\* C3: for every ChangeCamera command and every outcome of the two opens:
\* new camera opens -> Ok, index and resolution are the requested ones;
\* new fails, old reopens -> Err, index, resolution and fps as before, the
\* worker continues on the old camera; both fail -> Err, the shutdown flag is
\* set and the capture thread terminates.
C3_ChangeCameraRollback ==
    /\ [](\A cmd \in CaptureActions, new_ok \in BOOLEAN, rollback_ok \in BOOLEAN :
            cmd.type = "ChangeCamera" =>
            LET o == ChangeCameraOutcome(cmd, new_ok, rollback_ok) IN
            /\ new_ok => /\ o.reply = "Ok" /\ ~o.fatal
                         /\ o.cur_index = cmd.index
                         /\ o.cur_resolution = cmd.resolution
                         /\ o.camera = <<cmd.index, cmd.resolution, cur_fps>>
            /\ (~new_ok /\ rollback_ok) =>
                         /\ o.reply = "Err" /\ ~o.fatal
                         /\ o.cur_index = cur_index
                         /\ o.cur_resolution = cur_resolution
                         /\ o.camera = <<cur_index, cur_resolution, cur_fps>>
            /\ (~new_ok /\ ~rollback_ok) =>
                         /\ o.reply = "Err" /\ o.fatal /\ o.camera = NoCamera)
    /\ [][CaptureCommandProcessed("ChangeCamera") =>
            /\ cur_fps' = cur_fps
            /\ \/ /\ capture_reply' = "Ok"
                  /\ cur_index' = Head(capture_cmds).index
                  /\ cur_resolution' = Head(capture_cmds).resolution
                  /\ camera' = <<cur_index', cur_resolution', cur_fps>>
                  /\ cap_pc' = "drain" /\ shutdown' = shutdown
               \/ /\ capture_reply' = "Err"
                  /\ cur_index' = cur_index
                  /\ cur_resolution' = cur_resolution
                  /\ camera' = <<cur_index, cur_resolution, cur_fps>>
                  /\ cap_pc' = "drain" /\ shutdown' = shutdown
               \/ /\ capture_reply' = "Err"
                  /\ camera' = NoCamera
                  /\ shutdown' /\ cap_pc' = "done"
       ]_vars

\* C3 witness: a camera change to another device was refused and the worker
\* is capturing again on the device it had, after an earlier change took.
C3_Witness ==
    /\ capture_reply = "Err"
    /\ cur_index = 1
    /\ camera = <<cur_index, cur_resolution, cur_fps>>
    /\ cap_pc = "pace"
    /\ ~shutdown

\* C4: for every ChangeFps command: the camera reopens at the new rate ->
\* Ok, cur_fps is the new rate and the pacing interval is 1/fps; it does not
\* but reopens at the old rate -> Err, cur_fps and the pacing interval are
\* unchanged and the worker continues.  The pacing interval is 1/cur_fps
\* (to the nanosecond) whenever the worker is running.
C4_ChangeFpsCommit ==
    /\ [](\A cmd \in CaptureActions, new_ok \in BOOLEAN, rollback_ok \in BOOLEAN :
            cmd.type = "ChangeFps" =>
            LET o == ChangeFpsOutcome(cmd, new_ok, rollback_ok) IN
            /\ new_ok => /\ o.reply = "Ok" /\ ~o.fatal
                         /\ o.cur_fps = cmd.fps
                         /\ o.camera = <<cur_index, cur_resolution, cmd.fps>>
            /\ (~new_ok /\ rollback_ok) =>
                         /\ o.reply = "Err" /\ ~o.fatal
                         /\ o.cur_fps = cur_fps
                         /\ o.frame_interval = frame_interval
                         /\ o.camera = <<cur_index, cur_resolution, cur_fps>>)
    /\ [](cap_pc # "done" =>
            /\ frame_interval * cur_fps - NanosPerSec \in -cur_fps..cur_fps
            /\ camera # NoCamera => camera[3] = cur_fps)
    /\ [][CaptureCommandProcessed("ChangeFps") =>
            \/ /\ capture_reply' = "Ok"
               /\ cur_fps' = Head(capture_cmds).fps
               /\ cap_pc' = "drain" /\ shutdown' = shutdown
            \/ /\ capture_reply' = "Err"
               /\ cur_fps' = cur_fps
               /\ frame_interval' = frame_interval
               /\ camera' = <<cur_index, cur_resolution, cur_fps>>
               /\ cap_pc' = "drain" /\ shutdown' = shutdown
            \/ /\ capture_reply' = "Err"
               /\ camera' = NoCamera
               /\ shutdown' /\ cap_pc' = "done"
       ]_vars

\* C4 witness: a rate change was refused after an earlier one took, and the
\* worker is pacing at the rate it had.
C4_Witness ==
    /\ capture_reply = "Err"
    /\ cur_fps = 15
    /\ frame_interval = 66666667
    /\ cap_pc = "pace"
    /\ camera = <<cur_index, cur_resolution, 15>>

AllWorkersStopped ==
    /\ cap_pc = "done"
    /\ ren_pc = "done"
    /\ out_pc \in {"done", "none"}

\* C5: a failed sink write sets the shutdown flag and ends the output
\* thread, and from then on the capture and render threads end as well.
C5_SinkFailureStopsAll ==
    /\ [](sink = "failed" => (shutdown /\ out_pc \in {"done", "none"}))
    /\ (sink = "failed") ~> (cap_pc = "done" /\ ren_pc = "done")

\* C5 witness: the sink has failed and all three workers have exited.
C5_Witness == sink = "failed" /\ AllWorkersStopped

\* A step in which the render thread received a frame and handled it.
RenderTookFrame ==
    /\ ren_pc = "drain"
    /\ capture_q # <<>>
    /\ capture_q' = Tail(capture_q)

SinkReachable == render_to_output_tx /\ OutputReceiverAlive

\* C6: the render thread exits only on the shutdown flag or a disconnected
\* capture channel, and raises the flag only in the latter case.  A frame
\* handled while the sink slot is empty, its receiver gone or its channel
\* full is still rendered and offered to the rendered preview tap, and the
\* thread goes on to its next iteration.
C6_RenderSurvivesSink ==
    [][ /\ (ren_pc # "done" /\ ren_pc' = "done")
             => (shutdown \/ (cap_pc = "done" /\ capture_q = <<>>))
        /\ (ren_pc # ren_pc' /\ shutdown' # shutdown)
             => (cap_pc = "done" /\ capture_q = <<>>)
        /\ (RenderTookFrame /\ (~SinkReachable \/ Len(out_q) = OutputQueueCap))
             => /\ ren_pc' = "check"
                /\ shutdown' = shutdown
                /\ out_q' = out_q
                /\ gui_rendered' =
                     IF gui_rendered = <<>>
                     THEN <<Render(renderer, Head(capture_q))>>
                     ELSE gui_rendered
      ]_vars

\* C6 witness: with the output detached again after a run, the render
\* thread has just handled a frame, the tap holds a rendered frame, and
\* nothing is shutting down.
C6_Witness ==
    /\ ~render_to_output_tx
    /\ out_pc = "none"
    /\ start_result = "Ok"
    /\ ren_pc = "check"
    /\ gui_rendered # <<>>
    /\ Len(capture_q) = 1
    /\ ~shutdown

\* C7: stop_output returns only once the output thread has exited, with the
\* sink slot empty; neither of its steps touches the shutdown flag or the
\* capture and render threads.  While no handle is held there is no output
\* thread, and the sink is written only by a running output thread.
C7_StopOutputJoins ==
    /\ []((ctl_pc = "idle" /\ ~output_handle) => out_pc = "none")
    /\ [][ /\ (ctl_pc = "stop_join" /\ ctl_pc' = "idle")
                => /\ out_pc = "done"
                   /\ out_pc' = "none"
                   /\ ~render_to_output_tx'
                   /\ ~output_handle'
           /\ (ctl_pc' # ctl_pc)
                => /\ shutdown' = shutdown
                   /\ cap_pc' = cap_pc /\ ren_pc' = ren_pc
                   /\ capture_q' = capture_q
                   /\ gui_raw' = gui_raw /\ gui_rendered' = gui_rendered
                   /\ ~render_to_output_tx'
           /\ (sink' # sink)
                => \/ out_pc = "recv"
                   \/ (~output_handle /\ output_handle')
      ]_vars

\* C7 witness: stop_output has returned after the sink was written to; the
\* capture thread is pacing, the render thread running and a rendered frame
\* sits in the tap.
C7_Witness ==
    /\ ctl_pc = "idle"
    /\ ~output_handle
    /\ start_result = "Ok"
    /\ sink = "written"
    /\ ~shutdown
    /\ cap_pc = "pace"
    /\ ren_pc = "drain"
    /\ gui_rendered # <<>>

C9_ShutdownStopsAll ==
    /\ shutdown ~> AllWorkersStopped
    /\ [][ /\ (cap_pc # "done" /\ cap_pc' = "done")
                => \/ (cap_pc \in {"check", "reconnect", "backoff"} /\ shutdown)
                   \/ (cap_pc \in {"init", "drain"} /\ shutdown')
           /\ (ren_pc # "done" /\ ren_pc' = "done")
                => \/ (ren_pc = "check" /\ shutdown)
                   \/ (ren_pc = "drain" /\ cap_pc = "done" /\ capture_q = <<>>)
           /\ (out_pc \in {"check", "recv"} /\ out_pc' = "done")
                => \/ (out_pc = "check" /\ (shutdown \/ out_flag))
                   \/ (out_pc = "recv" /\ ~render_to_output_tx /\ out_q = <<>>)
                   \/ (out_pc = "recv" /\ shutdown' /\ sink' = "failed")
         ]_vars

\* C9 witness: shutdown was requested while the capture thread was in the
\* reconnect wait, and every worker has exited with the camera still closed.
C9_Witness ==
    /\ shutdown
    /\ AllWorkersStopped
    /\ camera = NoCamera
    /\ consecutive_errors = ReconnectThreshold
    /\ backoff_i > 0

\* C10: a capture error never ends the capture thread; the reconnect loop
\* ends without a camera only when it reads the shutdown flag set, never
\* raises the flag itself, follows every failed attempt by the wait and the
\* next attempt, and on success hands back a camera with the error count 0.
C10_ReconnectUntilShutdown ==
    [][ /\ (cap_pc = "drain" /\ consecutive_errors' = consecutive_errors + 1)
             => /\ cap_pc' \in {"pace", "reconnect"}
                /\ shutdown' = shutdown
        /\ (cap_pc \in {"reconnect", "backoff"} /\ cap_pc' = "done") => shutdown
        /\ (cap_pc \in {"reconnect", "backoff"} /\ cap_pc' # cap_pc)
             => shutdown' = shutdown
        /\ (cap_pc = "reconnect" /\ ~shutdown)
             => cap_pc' \in {"reconnect", "check", "backoff"}
        /\ (cap_pc = "backoff" /\ ~shutdown)
             => cap_pc' \in {"backoff", "reconnect"}
        /\ (cap_pc = "reconnect" /\ cap_pc' = "check")
             => /\ consecutive_errors' = 0
                /\ camera' = <<cur_index, cur_resolution, cur_fps>>
      ]_vars

\* C10 witness: the capture thread is in the last 100 ms sleep of a wait
\* between two reconnect attempts, with no shutdown requested.
C10_Witness ==
    /\ cap_pc = "backoff"
    /\ backoff_i = ReconnectSleeps - 1
    /\ consecutive_errors = ReconnectThreshold
    /\ camera = NoCamera
    /\ ~shutdown

\* ------------------------------------------- C11: record only after Ok

\* C11: an issuer's view of the configuration changes only in a step in
\* which the issuer holds the Ok reply to its command: RuntimeState in the
\* handler's Ok arm, GuiState.camera_index once the capture thread has
\* answered Ok and runs the camera the GUI records.
C11_RecordOnlyAfterOk ==
    [][ /\ (state' # state) =>
              \/ hc_pc \in {"cam_wait", "fps_wait"} /\ CaptureReplied
                                                  /\ capture_reply = "Ok"
              \/ hc_pc = "ren_wait" /\ RenderReplied /\ render_reply = "Ok"
        /\ (gui_camera_index' # gui_camera_index) =>
              /\ capture_cmds = <<>>
              /\ capture_reply = "Ok"
              /\ cur_index = gui_camera_index'
      ]_vars

\* ------------------------------------------- C12: the caller never hangs

\* The capture thread is inside reconnect_camera, where it reads no command.
CaptureNotDraining == cap_pc \in {"reconnect", "backoff"}

\* C12: the handler is never suspended in the hand-over of a command to a
\* worker that is not draining its queue: whatever is queued, it gets the
\* reply or gives up after the timeout.  (The render thread reads its
\* commands on every iteration; only the capture thread has a loop in which
\* it reads none.)
C12_CallerNeverHangs ==
    ~(/\ hc_pc \in {"cam_send", "fps_send"}
      /\ CaptureNotDraining
      /\ SendBlocked(capture_cmds, CommandQueueCap))

\* ------------------------------------------ C13: one instance at a time

\* C13: no thread of the current Pipeline value runs while a thread of an
\* earlier one has not exited; in particular no output thread runs while an
\* earlier output thread is still alive.
C13_OneInstanceAtATime ==
    /\ ~(/\ old_workers \cap Workers # {}
         /\ \E w \in Workers : ~ThreadEnded(w))
    /\ ~("output" \in old_workers /\ OutputReceiverAlive)

\* ------------------------------------------------- C14: teardown order

\* wait() moves on from one join to the next in the order publish, capture,
\* render.
JoinsInOrder ==
    (wait_pc' # wait_pc) =>
        <<wait_pc, wait_pc'>> \in {<<"none", "join_output">>,
                                   <<"joined", "join_output">>,
                                   <<"join_output", "join_capture">>,
                                   <<"join_capture", "join_render">>,
                                   <<"join_render", "joined">>}

C15_TapLatestWins ==
    [][ /\ (CaptureProducedFrame /\ gui_raw # <<>>) =>
              (gui_raw' = <<Frame>> /\ cap_pc' \in {"pace", "done"})
        /\ (RenderTookFrame /\ gui_rendered # <<>>) =>
              (gui_rendered' = <<Render(renderer, Head(capture_q))>>
               /\ ren_pc' \in {"check", "done"})
      ]_vars

\* ------------------------------------------------ C16: per-line errors

\* The keys of the SET lines a client may send that the handler knows, with
\* the values the handler accepts for them.
ValidLine(l, max_fps) ==
    /\ l.kind = "set"
    /\ \/ l.key = "camera_index" /\ l.value >= 0
       \/ l.key = "fps" /\ l.value >= 1 /\ l.value <= max_fps
       \/ l.key = "definition" /\ l.value >= 1 /\ l.value <= 10

\* The value of the last valid line for key in the batch, or None.
LastValid(batch, key, max_fps) ==
    LET hits == {i \in 1..Len(batch) :
                    ValidLine(batch[i], max_fps) /\ batch[i].key = key}
    IN  IF hits = {} THEN None
        ELSE batch[CHOOSE i \in hits : \A j \in hits : j <= i].value

InvalidLines(batch, max_fps) ==
    {i \in 1..Len(batch) : ~ValidLine(batch[i], max_fps)}

\* A batch of SET lines (well-formed or not).
SetBatch(batch) ==
    /\ batch # <<>>
    /\ \A i \in 1..Len(batch) : batch[i].kind \in {"set", "noeq"}

\* A batch within the limits of the read loop.
WithinLimits(batch) ==
    /\ Len(batch) < MAX_COMMANDS_PER_CONNECTION
    /\ \A i \in 1..Len(batch) : batch[i].len <= MAX_LINE_LENGTH

\* What the claim asks of one step of the handler, for the batches in scope.
PerLineErrors(scope(_)) ==
    \* reading: one ERR per invalid line, every valid line in the change sets
    /\ (hc_pc = "accepted" /\ hc_pc' # "accepted" /\ scope(request)) =>
          /\ Len(responses') = Cardinality(InvalidLines(request, state.max_fps))
          /\ \A i \in 1..Len(responses') : responses'[i].text \in ParseErrorTexts
          /\ capture_changes'.camera_index
                = LastValid(request, "camera_index", state.max_fps)
          /\ capture_changes'.fps = LastValid(request, "fps", state.max_fps)
          /\ render_changes'.definition
                = LastValid(request, "definition", state.max_fps)
          /\ (hc_pc' = "cam_send") = (capture_changes'.camera_index # None)
    \* routing: no change set is skipped on the way to the end
    /\ (hc_pc \in {"accepted", "cam_send", "cam_wait"} /\ hc_pc' # hc_pc
          /\ hc_pc' \notin {"cam_send", "cam_wait"} /\ capture_changes'.fps # None) =>
          hc_pc' = "fps_send"
    /\ (hc_pc \in {"accepted", "cam_send", "cam_wait", "fps_send", "fps_wait"}
          /\ hc_pc' = "closed") =>
          render_changes'.definition = None
    \* sending: the command carries the value of the line
    /\ (hc_pc = "cam_send" /\ hc_pc' = "cam_wait") =>
          /\ capture_cmds' # <<>>
          /\ capture_cmds'[Len(capture_cmds')]
                = ChangeCamera(capture_changes.camera_index, state.resolution)
    /\ (hc_pc = "fps_send" /\ hc_pc' = "fps_wait") =>
          /\ capture_cmds' # <<>>
          /\ capture_cmds'[Len(capture_cmds')] = ChangeFps(capture_changes.fps)
    /\ (hc_pc = "ren_send" /\ hc_pc' = "ren_wait") =>
          /\ render_cmds' # <<>>
          /\ render_cmds'[Len(render_cmds')]
                = Rebuild(DefinitionColumns(render_changes.definition))
    \* recording: an Ok reply puts the value in RuntimeState
    /\ (hc_pc = "cam_wait" /\ hc_pc' # hc_pc /\ capture_reply = "Ok") =>
          state'.camera_index = capture_changes.camera_index
    /\ (hc_pc = "fps_wait" /\ hc_pc' # hc_pc /\ capture_reply = "Ok") =>
          state'.fps = capture_changes.fps
    /\ (hc_pc = "ren_wait" /\ hc_pc' # hc_pc /\ render_reply = "Ok") =>
          state'.definition = render_changes.definition

C17_ColumnNeverEmpty ==
    rain # NoRain =>
        \A i \in 1..rain.cols : Len(rain.columns[i].streams) >= 1

\* An advance has retired a column's only stream and put a new one, with a
\* fresh cooldown, in its place.
C17_Witness ==
    /\ rain # NoRain
    /\ \E i \in 1..rain.cols :
        /\ Len(rain.columns[i].streams) = 1
        /\ rain.columns[i].streams[1].position = 0
        /\ rain.columns[i].spawn_cooldown \in CooldownDraws

\* C18: compute_cells returns exactly rows * cols cells, and the intensity
\* of every one of them lies in [0, 1], whatever the streams, the curve, the
\* invert setting and the grid brightness in [0, 1].
C18_CellsBounded ==
    cells # <<>> =>
        /\ Len(cells) = rain.rows * rain.cols
        /\ \A i \in 1..Len(cells) :
            /\ QLeq(<<0, 1>>, cells[i].intensity)
            /\ QLeq(cells[i].intensity, <<1, 1>>)

\* Cells computed for a column in which two streams overlap on a row, one
\* of the rain cells at full intensity.
C18_Witness ==
    /\ cells # <<>>
    /\ \E col \in 1..rain.cols, row \in 0..(rain.rows - 1) :
        /\ Len(rain.columns[col].streams) >= 2
        /\ StreamIntensity(rain.columns[col].streams[1], row).hit
        /\ StreamIntensity(rain.columns[col].streams[2], row).hit
    /\ \E i \in 1..Len(cells) :
        cells[i].kind = "rain" /\ cells[i].intensity = <<1, 1>>

\* The streams of the rain state.
RainStreams ==
    IF rain = NoRain THEN {}
    ELSE UNION { { rain.columns[i].streams[j]
                   : j \in 1..Len(rain.columns[i].streams) }
                 : i \in 1..rain.cols }

\* The row of the grid at distance d behind the head of the stream, when
\* there is one.
RowAt(stream, d) == HeadRow(stream.position) - d
InGrid(row) == row >= 0 /\ row < rain.rows

\* C19: the intensity compute_cells gives a stream at distance d from its
\* head is (1 - d / trail_length)^2 in the active trail, 1 at the head;
\* with a ghost trail it is exactly 0.18 at d = trail_length and strictly
\* decreasing in d up to trail_length + ghost_length.
C19_TrailIntensity ==
    \A st \in RainStreams :
        LET L == st.trail_length
            G == st.ghost_length
            at(d) == StreamIntensity(st, RowAt(st, d))
        IN  /\ \A d \in 0..(L - 1) :
                InGrid(RowAt(st, d)) =>
                    /\ at(d).hit
                    /\ QLeq(at(d).intensity, <<(L - d) * (L - d), L * L>>)
                    /\ QLeq(<<(L - d) * (L - d), L * L>>, at(d).intensity)
                    /\ (d = 0 => at(d).intensity = <<1, 1>>)
            /\ G > 0 =>
                /\ InGrid(RowAt(st, L)) =>
                        at(L).hit /\ at(L).intensity = <<9, 50>>
                /\ \A d \in L..(L + G - 2) :
                        InGrid(RowAt(st, d)) /\ InGrid(RowAt(st, d + 1)) =>
                            /\ at(d + 1).hit
                            /\ QLess(at(d + 1).intensity, at(d).intensity)

\* Cells have been computed for a stream whose head, active trail and
\* two rows of ghost trail are all on the grid.
C19_Witness ==
    /\ cells # <<>>
    /\ \E st \in RainStreams :
        /\ st.ghost_length >= 2
        /\ InGrid(RowAt(st, 0))
        /\ InGrid(RowAt(st, st.trail_length + 1))

\* C21: render returns output_w * output_h * 3 bytes for every input; on a
\* frame shorter than width * height * 3 every pixel is the background
\* colour, no byte past the end of the input is read and the call does not
\* panic.
C21_ShortFrameBackground ==
    render_out # <<>> =>
        LET o == render_out
            short == o.buf_len < o.frame_width * o.frame_height * 3
        IN  /\ ~o.result.panicked =>
                Len(o.result.output) = o.output_width * o.output_height * 3
            /\ short =>
                /\ ~o.result.panicked
                /\ o.result.read <= o.buf_len
                /\ \A i \in 1..Len(o.result.output) :
                        o.result.output[i] = o.bg[((i - 1) % 3) + 1]

\* render has returned for a frame that is one byte short.
C21_Witness ==
    /\ render_out # <<>>
    /\ render_out.buf_len = 11
    /\ render_out.frame_width = 2 /\ render_out.frame_height = 2
    /\ render_out.bg = <<10, 20, 30>>
    /\ Len(render_out.result.output) = 12

\* C22: for a non-empty character set and a curve, invert unset, a brighter
\* cell never gets a lower index, and every index is within 0..n-1.
C22_MappingMonotonic ==
    (char_map # <<>> /\ char_map.chars # <<>>) =>
        /\ \A i \in 1..Len(char_map.chars) :
                char_map.chars[i] \in 0..(char_map.n - 1)
        /\ ~char_map.invert =>
                \A i, j \in 1..Len(char_map.chars) :
                    QLeq(char_map.grid[i], char_map.grid[j]) =>
                        char_map.chars[i] <= char_map.chars[j]

\* A grid of two different brightness values mapped to two different
\* characters, the last character of the set among them.
C22_Witness ==
    /\ char_map # <<>> /\ char_map.chars # <<>>
    /\ ~char_map.invert
    /\ char_map.curve = "Sigmoid"
    /\ QLess(char_map.grid[1], char_map.grid[2])
    /\ char_map.chars[1] < char_map.chars[2]
    /\ char_map.chars[2] = char_map.n - 1

\* C23: one mirror_bitmap moves the value at (x, y) to (w-1-x, y); two give
\* the original grid back.
C23_MirrorInvolution ==
    bitmap # <<>> =>
        LET w == bitmap.width
            h == bitmap.height
        IN  /\ bitmap.flips = 1 =>
                \A x \in 0..(w - 1), y \in 0..(h - 1) :
                    bitmap.coverage[y * w + (w - 1 - x) + 1]
                        = bitmap.source[y * w + x + 1]
            /\ bitmap.flips = 2 => bitmap.coverage = bitmap.source

\* A 3 x 2 bitmap that is not symmetric, flipped twice.
C23_Witness ==
    /\ bitmap # <<>>
    /\ bitmap.flips = 2
    /\ bitmap.width = 3 /\ bitmap.height = 2
    /\ bitmap.source[1] # bitmap.source[3]

\* The steps at which a holder of the lock gives it back.
SinkLockRelease == RenderSinkSend \/ StartOutputStore \/ StopOutputStore

\* C24: the lock around the sink slot is held only by the render thread
\* between lock() and its try_send, and by start_output / stop_output
\* between lock() and the slot assignment: never by a thread that is in a
\* receive, a join, a sleep, a sink write or a camera read.  Whoever holds
\* it can always take the step that releases it, so no interleaving of
\* render, start_output and stop_output deadlocks.
C24_LockNeverAcrossBlocking ==
    /\ sink_lock = "render" => ren_pc = "sink_locked"
    /\ sink_lock = "owner" => ctl_pc \in {"start_locked", "stop_locked"}
    /\ sink_lock # "free" => ENABLED SinkLockRelease

\* stop_output holds the lock while the render thread waits for it with a
\* frame to offer.
C24_Witness ==
    /\ sink_lock = "owner"
    /\ ctl_pc = "stop_locked"
    /\ ren_pc = "sink"
    /\ out_pc = "recv"

\* A step in which capture_frame returned an error.
CaptureFailed ==
    /\ cap_pc = "drain"
    /\ consecutive_errors' = consecutive_errors + 1

\* A step in which capture_frame returned a frame: the capture thread
\* leaves the head of its cycle without having counted a failure.
CaptureSucceeded ==
    /\ cap_pc = "drain"
    /\ capture_cmds = <<>>
    /\ cap_pc' # "drain"
    /\ ~CaptureFailed

\* C25: the capture thread enters the reconnect loop exactly when the count
\* of consecutive capture_frame failures reaches 30; below that a failure
\* leaves the camera handle in place and goes on to the next cycle, every
\* successful capture resets the count to 0, and a capture cycle never
\* starts with a count above 29.
C25_ReconnectAtThreshold ==
    [][/\ (cap_pc \notin {"reconnect", "backoff"} /\ cap_pc' = "reconnect") =>
            CaptureFailed /\ consecutive_errors' = 30
       /\ CaptureFailed =>
            IF consecutive_errors' < 30
            THEN camera' = camera /\ cap_pc' = "pace"
            ELSE consecutive_errors' = 30 /\ cap_pc' = "reconnect"
       /\ CaptureSucceeded => consecutive_errors' = 0
       /\ cap_pc' = "drain" => consecutive_errors' <= 29]_vars

\* The thirtieth failure in a row has sent the capture thread into the
\* reconnect loop.
C25_Witness ==
    /\ cap_pc = "reconnect"
    /\ consecutive_errors = 30
    /\ camera = NoCamera

\* C26: while shutdown is not requested, a Rebuild in the render-command
\* queue is eventually dequeued and answered, whether or not a frame ever
\* arrives: the wait for a frame ends after its timeout and the thread
\* goes back to the command queue.  The queue is first-in first-out, so
\* this is: if from some point on the queue is never empty and shutdown
\* never requested, a command is dequeued and answered again and again.
C26_RebuildEventuallyAnswered ==
    <>[](render_cmds # <<>> /\ ~shutdown) =>
        []<><<RenderCommandProcessed /\ render_reply' \in {"Ok", "Err"}>>_vars

\* A Rebuild has been answered although the capture thread has not opened
\* the camera yet, so that no frame has ever been captured.
C26_Witness ==
    /\ cap_pc = "init"
    /\ ~shutdown
    /\ render_reply \in {"Ok", "Err"}
    /\ render_cmds = <<>>
    /\ ren_pc = "recv"

\* One reply, Ok or Err, has gone out on the reply channel of the command.
Answered(c) ==
    c # <<>> => Len(c.replies) = 1 /\ c.replies[1] \in {"Ok", "Err"}

\* A step that takes commands off a queue takes the oldest one, and a step
\* that adds one adds it behind the others.
FifoStep(queue, queue_next, received_next) ==
    /\ Len(queue_next) < Len(queue) =>
            /\ queue_next = Tail(queue)
            /\ received_next = [cmd |-> Head(queue), replies |-> <<>>]
    /\ Len(queue_next) > Len(queue) =>
            SubSeq(queue_next, 1, Len(queue)) = queue

\* C27: every command a worker dequeues gets exactly one reply, Ok or Err,
\* on every path of its handler, the path on which the rollback fails
\* included; the reply has been sent when the worker dequeues the next
\* command, handles the next frame or terminates; commands leave each queue
\* in the order they entered it.
C27_OneReplyPerCommandInOrder ==
    [][/\ FifoStep(capture_cmds, capture_cmds', cap_cmd')
       /\ FifoStep(render_cmds, render_cmds', ren_cmd')
       /\ Len(capture_cmds') < Len(capture_cmds) => Answered(cap_cmd)
       /\ Len(render_cmds') < Len(render_cmds) => Answered(ren_cmd)
       /\ (cap_pc # cap_pc' /\ cap_pc' \in {"pace", "done"}) =>
                Answered(cap_cmd')
       /\ (Len(capture_q') < Len(capture_q) \/ (ren_pc # ren_pc' /\ ren_pc' = "done")) =>
                Answered(ren_cmd')
       /\ cap_cmd' # <<>> => Len(cap_cmd'.replies) <= 1
       /\ ren_cmd' # <<>> => Len(ren_cmd'.replies) <= 1]_vars

\* The capture thread has ended on a rate change whose rollback failed, its
\* one Err sent, with a later command left in the queue.
C27_Witness ==
    /\ cap_pc = "done" /\ camera = NoCamera
    /\ cap_cmd # <<>> /\ cap_cmd.cmd.type = "ChangeFps"
    /\ cap_cmd.replies = <<"Err">>
    /\ capture_cmds # <<>>

\* The render thread ends on the disconnected frame queue.
RenderEndsOnDisconnect ==
    ren_pc = "drain" /\ cap_pc = "done" /\ capture_q = <<>> /\ ren_pc' = "done"

\* The capture thread hands a frame to a queue whose receiver is gone.
HandOffDisconnected ==
    cap_pc = "drain" /\ capture_cmds = <<>> /\ ren_pc = "done" /\ cap_pc' # cap_pc

C29_OnePublishWorker ==
    /\ [](OutputReceiverAlive => output_handle)
    /\ [][ /\ (~output_handle /\ output_handle') => out_pc = "none"
           /\ (output_handle /\ start_result' # start_result)
                => /\ start_result' = "Err"
                   /\ UNCHANGED <<render_to_output_tx, out_q, out_pc,
                                  output_handle, output_shutdown, out_flag,
                                  sink>>
         ]_vars

\* start_output was refused while the output thread was running, and the
\* thread has written a frame since.
C29_Witness ==
    /\ start_result = "Err"
    /\ output_handle /\ render_to_output_tx
    /\ out_pc = "check" /\ sink = "written"
    /\ ~shutdown

\* C30: the active renderer always has the output size of the renderer the
\* pipeline was started with, whatever rebuilds and camera changes have
\* happened, and every frame in the sink's channel has that size's length.
C30_OutputSizeFixed ==
    /\ renderer.output_width = InitialRenderer.output_width
    /\ renderer.output_height = InitialRenderer.output_height
    /\ \A i \in 1..Len(out_q) :
            out_q[i].len = InitialRenderer.output_width
                            * InitialRenderer.output_height * 3

\* The camera was changed, a rebuild succeeded and a later one failed, and
\* the sink's channel holds frames of two different renderers.
C30_Witness ==
    /\ camera # NoCamera /\ camera[1] = 1 /\ dims = <<640, 480>>
    /\ renderer # InitialRenderer /\ render_reply = "Err"
    /\ Len(out_q) = 2
    /\ out_q[1].ascii_rows # out_q[2].ascii_rows

\* The numbers of the frames in a queue, oldest first.
Ids(q) == [i \in 1..Len(q) |-> q[i].id]

\* The frames written, then those waiting for the output thread, then those
\* waiting for the render thread.
FramesDownstream == written \o Ids(out_q) \o Ids(capture_q)

\* C31: the frames written to the sink are, in order, a subsequence of the
\* frames captured, none of them twice; the same holds of the frames written
\* followed by those still queued, so that no frame is rendered twice.
C31_FramesInOrder ==
    /\ \A i \in 1..Len(FramesDownstream) : FramesDownstream[i] \in 1..captured
    /\ \A i, j \in 1..Len(FramesDownstream) :
            i < j => FramesDownstream[i] < FramesDownstream[j]

\* The first and the third frame were written, the second was dropped on
\* the way, after a rebuild and a detach and attach of the output.
C31_Witness ==
    /\ written = <<1, 3>>
    /\ start_result = "Ok"
    /\ render_reply = "Ok"

\* C32: the recorded frame rate is at least 1 and at most the recorded
\* maximum, in every state of RuntimeState.
C32_FpsWithinMax ==
    state.fps >= 1 /\ state.fps <= state.max_fps

\* What the claim asks of the step in which the handler reads a batch with
\* a STATUS line, for the batches in scope.
StatusOnly(scope(_)) ==
    (/\ hc_pc = "accepted" /\ hc_pc' # "accepted"
     /\ \E i \in 1..Len(request) : request[i].kind = "status"
     /\ scope(request)) =>
        /\ responses' = <<Response("STATUS", 0)>>
        /\ hc_pc' = "closed"
        /\ capture_changes' = NoCaptureChanges
        /\ render_changes' = NoRenderChanges
        /\ capture_cmds' = capture_cmds
        /\ render_cmds' = render_cmds
        /\ state' = state

\* C33 as stated: whenever any line of a batch is STATUS, the handler
\* replies with the status listing only, routes nothing and leaves
\* RuntimeState unchanged.
C33_AsStated == [][StatusOnly(LAMBDA b : TRUE)]_vars

\* C33: whenever any line of a batch within the limits of the read loop
\* (fewer than 100 lines, none longer than 4096 bytes) is STATUS, the handler
\* replies with the status listing only, sends no capture or render command
\* for the SET lines of the batch, produces no per-line response and leaves
\* RuntimeState unchanged.
C33_StatusOnly == [][StatusOnly(WithinLimits)]_vars

\* A batch of a valid SET line followed by STATUS has been answered with
\* the status listing alone and nothing is queued for a worker.
C33_Witness ==
    /\ hc_pc = "closed"
    /\ responses = <<Response("STATUS", 0)>>
    /\ capture_changes = NoCaptureChanges
    /\ render_changes = NoRenderChanges
    /\ capture_cmds = <<>> /\ render_cmds = <<>>
    /\ state = InitialState

\* The streams of a column that cover the row, by their place in the column.
Covering(streams, row) ==
    {j \in 1..Len(streams) : StreamIntensity(streams[j], row).hit}

\* The first of the streams with the highest intensity at the row.
Brightest(streams, row) ==
    LET at == [j \in 1..Len(streams) |-> StreamIntensity(streams[j], row)]
        covering == {j \in 1..Len(streams) : at[j].hit}
    IN  CHOOSE j \in covering :
            \A k \in covering :
                \/ QLess(at[k].intensity, at[j].intensity)
                \/ at[k].intensity = at[j].intensity /\ j <= k

\* The webcam brightness values of the frames the cells are computed for.
WebcamBrightnessValues ==
    {WebcamBrightness(value, curve, invert) :
        value \in GridValues, curve \in Curves, invert \in BOOLEAN}

TrailEnd(stream) ==
    HeadRow(stream.position) - stream.trail_length - stream.ghost_length
StaysIn(stream, streams_next) ==
    \E k \in 1..Len(streams_next) : streams_next[k] = stream

\* A tick in which the trail of the oldest stream of column i has passed
\* the bottom edge, so that the stream is dropped.
RetiresOldest(i) ==
    /\ rain # NoRain /\ i <= rain.cols
    /\ \E dt \in DtValues :
        /\ Advance(dt)
        /\ TrailEnd(Moved(rain.columns[i].streams[1], dt)) > rain.rows

\* C35: in every tick a stream is dropped if and only if, once moved by
\* speed * dt, its head row less its trail and ghost lengths is greater than
\* rows; a dropped stream affects no row of the grid any more; and when time
\* keeps passing, the oldest stream of every column is dropped again and
\* again, so that every stream is retired in the end.
C35_RetiredWhenTrailLeft ==
    /\ [][(rain # NoRain /\ rain' # NoRain) =>
            \E dt \in DtValues :
                \A i \in 1..rain.cols :
                    \A j \in 1..Len(rain.columns[i].streams) :
                        LET st == Moved(rain.columns[i].streams[j], dt)
                            retired == ~StaysIn(st, rain'.columns[i].streams)
                        IN  /\ retired <=> TrailEnd(st) > rain.rows
                            /\ retired =>
                                  \A d \in 0..(st.trail_length
                                                + st.ghost_length - 1) :
                                      ~InGrid(RowAt(st, d))]_vars
    /\ \A i \in 1..2 :
          \/ []<>(rain # NoRain /\ rain.cols < i)
          \/ []<><<RetiresOldest(i)>>_vars

\* A column of three streams after a tick that dropped none of them, the
\* trail of the oldest partly below the bottom edge.
C35_Witness ==
    /\ rain # NoRain
    /\ \E i \in 1..rain.cols :
        LET streams == rain.columns[i].streams IN
        /\ Len(streams) = 3
        /\ HeadRow(streams[1].position) > rain.rows
        /\ TrailEnd(streams[1]) <= rain.rows

\* The streams of the column the tick of length dt moves and keeps.
Kept(col, dt) ==
    SelectSeq([j \in 1..Len(col.streams) |-> Moved(col.streams[j], dt)],
              LAMBDA st : TrailEnd(st) <= rain.rows)

\* C36: in every tick and every column the countdown goes down by at most
\* 1; a stream is added to a column the tick leaves non-empty only when the
\* countdown was 0, a column the tick leaves empty gets its replacement
\* whatever the countdown, and either spawn sets the countdown to a value
\* from 20 to 60.
C36_SpawnRateLimited ==
    [][\A dt \in DtValues :
            (rain # NoRain /\ cells' = <<>> /\ Advance(dt)) =>
               \A i \in 1..rain.cols :
                LET col == rain.columns[i]
                    after == rain'.columns[i]
                    added == Len(after.streams) - Len(Kept(col, dt))
                IN  /\ after.spawn_cooldown >= col.spawn_cooldown - 1
                    /\ added \in {0, 1}
                    /\ added = 1 =>
                          /\ after.spawn_cooldown >= 20
                          /\ after.spawn_cooldown <= 60
                          /\ Kept(col, dt) # <<>> => col.spawn_cooldown = 0
                    /\ Kept(col, dt) = <<>> => added = 1]_vars

\* A column that got its second stream once the countdown had run out, and
\* has counted down five ticks since.
C36_Witness ==
    /\ rain # NoRain
    /\ \E i \in 1..rain.cols :
        /\ Len(rain.columns[i].streams) = 2
        /\ rain.columns[i].spawn_cooldown = 15

\* C37: in classic mode every column holds exactly one stream, without a
\* ghost trail, and no mutation timers; in movie mode every column holds
\* one, two or three streams; after construction and after every advance.
C37_StreamsPerColumn ==
    rain # NoRain =>
        \A i \in 1..rain.cols :
            LET col == rain.columns[i] IN
            IF rain.is_movie_mode
            THEN Len(col.streams) \in 1..3
            ELSE /\ Len(col.streams) = 1
                 /\ col.streams[1].ghost_length = 0
                 /\ col.char_timers = 0

\* A classic rain whose countdown has run out in a column that keeps its
\* one stream after an advance.
C37_Witness ==
    /\ rain # NoRain
    /\ ~rain.is_movie_mode
    /\ \E i \in 1..rain.cols :
          /\ rain.columns[i].spawn_cooldown = 0
          /\ rain.columns[i].streams[1].position > 0

\* C38: for a cell of intensity in [0, 1], whatever the colour, the base
\* and glow coverage and the output byte, the alpha is in 0..255, the sum
\* eff * alpha + out * (255 - alpha) fits 16 bits, and the channel written
\* is in 0..255 and between the output byte and the effective colour.
C38_BlendInRange ==
    render_out # <<>> =>
        LET o == render_out IN
        (QLeq(<<0, 1>>, o.intensity) /\ QLeq(o.intensity, <<1, 1>>)) =>
            /\ o.alpha \in 0..255
            /\ o.eff \in 0..255
            /\ o.eff * o.alpha + o.out * (255 - o.alpha) <= 65535
            /\ o.result \in 0..255
            /\ o.result >= Min(o.out, o.eff)
            /\ o.result <= Max(o.out, o.eff)

\* A pixel of a bright cell drawn through a glow alpha strictly between
\* the two coverages, onto a brighter output byte.
C38_Witness ==
    /\ render_out # <<>>
    /\ render_out.drawn /\ render_out.has_glow
    /\ render_out.intensity = <<1, 2>>
    /\ render_out.base_a < render_out.alpha
    /\ render_out.alpha < render_out.glow_a
    /\ render_out.eff < render_out.result
    /\ render_out.result < render_out.out
====
